---- MODULE Spec2Model ----
(***************************************************************************)
(* A model of the market-compass data layer: the refresh hook               *)
(* (useMarketCompassData), the per-provider RateLimiter, fetchWithRetry and *)
(* the durable cache tiers (LocalStorageCache, IndexedDBCache).             *)
(*                                                                          *)
(* JavaScript runs one callback to completion before the next one starts,   *)
(* so every action below is one such run: the code from one await (or the   *)
(* call) up to the next await.  Date.now() is the variable now, in ms.      *)
(***************************************************************************)
EXTENDS Integers, Sequences, FiniteSets, TLC

VARIABLES
    now,              \* Date.now()
    \* ---- useMarketCompassData
    cyclesStarted,    \* number of fetchAllData calls made so far
    inflight,         \* calls suspended at await Promise.allSettled
    completed,        \* calls that ran to their finally block
    data,             \* useState data: NoData or the rawData of one call
    isLoading,        \* useState isLoading
    error,            \* useState error
    \* ---- RateLimiter
    maxCallsPerMinute,
    queue,            \* this.queue: the queued task wrappers, by task number
    processing,       \* this.processing
    callsThisMinute,  \* this.callsThisMinute
    lastResetTime,    \* this.lastResetTime
    drain,            \* the processQueue activations: where each one stands
    submitted,        \* number of execute() calls made so far
    promise,          \* the promise execute() returned, per task
    fnOutcome,        \* what the submitted fn settled with, per task
    execLog,          \* the calls fn() made so far: task, time, and whether the wrapper slept first
    \* ---- fetchWithRetry (one call)
    maxRetries,       \* the parameter
    retryPc,          \* "idle", "fetch" (await fetch / response.json), "sleep", "returned", "thrown"
    attempt,          \* the loop variable i
    retryWakeAt,      \* when the pending sleep(delay) ends
    attemptLog,       \* per fetch(url) made: start, end, outcome, the delay slept after it
    retryResult,      \* what the call returned or threw
    \* ---- the durable cache tiers
    tier,             \* the tier the caller works with: the tiers share nothing but the clock
    \* ---- LocalStorageCache
    lsStore,          \* localStorage: the item under each prefixed cache key
    lsOther,          \* localStorage: number of items other code keeps there
    lsGot,            \* the get that has just returned: its key and its result
    lsLastSet,        \* per key: the last set not followed by a write or remove of the key
    lsCall,           \* the call that has just returned: how it ended and what its cleanup removed
    \* ---- IndexedDBCache
    idbStore,         \* the object store: the record under each id
    idbTx,            \* transactions created and not yet run, in creation order
    idbGot,           \* the get that has just resolved: its key, its result, when it was called
    idbLastSet,       \* per key: the last set not followed by a write or remove of the key
    idbConn,          \* "open", "failed" (never opened) or "closed" (closed by the browser)
    idbCall,          \* the call whose promise has just settled, and how
    \* ---- MarketDataService.fetchQuote
    useStaticData,    \* this.useStaticData
    memCache,         \* this.cache: the entry under each ticker
    quotePc,          \* per ticker: where the fetchQuote call in flight stands
    quoteGot,         \* the fetchQuote that has just returned: its result and the layer it came from
    \* ---- scoreHistory
    history,          \* localStorage item marketCompass_scoreHistory
    lastSave,         \* the saveScore that has just returned: its arguments and what it did
    lastWritten,      \* when the latest written save was made, and the date it was keyed by
    lastQuery,        \* the getPercentile30d that has just returned: its argument and its result
    lastLength,       \* the getHistoryLength that has just returned: its result
    \* ---- the dashboard store's health score and healthScore.ts
    healthItem,       \* localStorage item health-score-yesterday
    healthScore,      \* the store's healthScore
    previousScore,    \* the store's previousScore
    savedByDay,       \* per day: the score the last written saveYesterdayScore of that day saved
    updatedOn,        \* the day of the latest updateHealthData since the store was created
    \* ---- the scoring functions of the compass
    sigCalc,          \* the scoring rule that has just been applied: its input and its score
    pillarCalc,       \* the pillar score that has just been calculated, and from what
    compCalc,         \* the composite that has just been calculated, and from what
    healthCalc,       \* the calculateHealthScore call: its instruments and its result
    statusCalc,       \* the status classification: the function, its score and its result
    agreeCalc         \* the pillar agreement: the six scores, the categories, the verdict

hookVars == <<cyclesStarted, inflight, completed, data, isLoading, error>>
limVars  == <<maxCallsPerMinute, queue, processing, callsThisMinute,
              lastResetTime, drain, submitted, promise, fnOutcome, execLog>>
retryVars == <<maxRetries, retryPc, attempt, retryWakeAt, attemptLog, retryResult>>
lsVars == <<lsStore, lsOther, lsGot, lsLastSet, lsCall>>
idbVars == <<idbStore, idbTx, idbGot, idbLastSet, idbConn, idbCall>>
quoteVars == <<useStaticData, memCache, quotePc, quoteGot>>
histVars == <<history, lastSave, lastWritten, lastQuery, lastLength>>
healthVars == <<healthItem, healthScore, previousScore, savedByDay, updatedOn>>
scoreVars == <<sigCalc, pillarCalc, compCalc, healthCalc, statusCalc, agreeCalc>>
vars == <<now, hookVars, limVars, retryVars, tier, quoteVars, histVars, healthVars, scoreVars, lsVars, idbVars>>

Max(S) == CHOOSE x \in S : \A y \in S : y <= x

(***************************************************************************)
(* Clock                                                                    *)
(***************************************************************************)
ClockInit == now = 0

(***************************************************************************)
(* useMarketCompassData: fetchAllData, called by the mount effect, by the   *)
(* interval timer and by refetch.                                           *)
(***************************************************************************)
MaxCycles == 3

Providers == {"movingAverages", "breadth", "credit", "sentiment", "global", "volatility"}

\* the signals each provider's values feed, and DATA_QUALITY.warningThreshold
SignalsPerProvider == 3
WarningThreshold == 6

NoData == [cycle |-> 0, fallback |-> {}, values |-> [p \in Providers |-> "none"]]

HookInit ==
    /\ cyclesStarted = 0
    /\ inflight = {}
    /\ completed = {}
    /\ data = NoData
    /\ isLoading = TRUE
    /\ error = "null"

\* fetchAllData up to its await: setIsLoading(true), setError(null), and the six
\* provider fetches are issued.
FetchAllDataStart ==
    /\ cyclesStarted < MaxCycles
    /\ cyclesStarted' = cyclesStarted + 1
    /\ inflight' = inflight \cup {cyclesStarted + 1}
    /\ isLoading' = TRUE
    /\ error' = "null"
    /\ UNCHANGED <<completed, data, now, limVars, retryVars, tier, quoteVars, histVars, healthVars, scoreVars, lsVars, idbVars>>

\* The value setData receives: the call's own rawData, with the fallback values
\* for the providers whose promise was rejected.
\* Promise.allSettled: the status of each provider's promise; the await
\* itself never rejects.
AllSettled(failed) == [p \in Providers |-> IF p \in failed THEN "rejected" ELSE "fulfilled"]
AwaitRejectsAsPromiseAll(failed) == failed # {}
AwaitRejects(failed) == FALSE

\* x.status === 'fulfilled' ? x.value : <the fallback values of the provider>
ExtractMissing(status) == IF status = "fulfilled" THEN "own" ELSE "undefined"
Extract(status) == IF status = "fulfilled" THEN "own" ELSE "fallback"

CommitValue(c, failed) ==
    [cycle |-> c, fallback |-> failed,
     values |-> [p \in Providers |-> Extract(AllSettled(failed)[p])]]

\* fetchAllData after its await: Promise.allSettled has resolved, rawData is
\* built and committed, and the finally block ends loading.
FetchAllDataSettled(c, failed) ==
    /\ c \in inflight
    /\ inflight' = inflight \ {c}
    /\ completed' = completed \cup {c}
    /\ IF AwaitRejects(failed)
       THEN /\ data' = data
            /\ error' = "Failed to fetch market data"
       ELSE /\ data' = CommitValue(c, failed)
            /\ error' = "null"
    /\ isLoading' = FALSE
    /\ UNCHANGED <<cyclesStarted, now, limVars, retryVars, tier, quoteVars, histVars, healthVars, scoreVars, lsVars, idbVars>>

\* dataStatus, computed at each render
DataStatus == [isComplete |-> data # NoData, missingSignals |-> {}]

HookNext ==
    \/ FetchAllDataStart
    \/ \E c \in 1..MaxCycles, failed \in SUBSET Providers : FetchAllDataSettled(c, failed)

(***************************************************************************)
(* RateLimiter                                                              *)
(***************************************************************************)
WindowMs == 60000

MaxTasks == 3
MaxBudget == 2
TicksPerWindow == 2
MaxWindows == 1

Tasks == 1..MaxTasks
TickMs == WindowMs \div TicksPerWindow
MaxNow == MaxWindows * WindowMs

NoDrain == [pc |-> "none", cur |-> 0, wakeAt |-> 0]
Pending == [state |-> "pending", payload |-> 0]
NoOutcome == [kind |-> "none", payload |-> 0]

\* The field initialisers and the constructor.
LimInit ==
    /\ maxCallsPerMinute \in 1..MaxBudget
    /\ queue = <<>>
    /\ processing = FALSE
    /\ callsThisMinute = 0
    /\ lastResetTime = 0
    /\ drain = [d \in Tasks |-> NoDrain]
    /\ submitted = 0
    /\ promise = [t \in Tasks |-> Pending]
    /\ fnOutcome = [t \in Tasks |-> NoOutcome]
    /\ execLog = <<>>

\* if (Date.now() - this.lastResetTime >= 60000) { callsThisMinute = 0; lastResetTime = Date.now() }
WindowElapsed == now - lastResetTime >= WindowMs
CallsAfterReset == IF WindowElapsed THEN 0 ELSE callsThisMinute
ResetTimeAfterReset == IF WindowElapsed THEN now ELSE lastResetTime

\* if (callsThisMinute >= maxCallsPerMinute) { waitTime = 60000 - (Date.now() - lastResetTime); if (waitTime > 0) await sleep(waitTime) ... }
WaitTime == WindowMs - (now - ResetTimeAfterReset)
MustWaitAboveBudget == CallsAfterReset > maxCallsPerMinute /\ WaitTime > 0
MustWait == CallsAfterReset >= maxCallsPerMinute /\ WaitTime > 0

\* The task wrapper execute() queued, from its call up to its first await:
\* either sleep(waitTime) or fn().
TaskStart(d, t) ==
    /\ callsThisMinute' = CallsAfterReset
    /\ lastResetTime' = ResetTimeAfterReset
    /\ IF MustWait
       THEN /\ drain' = [drain EXCEPT ![d] = [pc |-> "sleep", cur |-> t, wakeAt |-> now + WaitTime]]
            /\ execLog' = execLog
       ELSE /\ drain' = [drain EXCEPT ![d] = [pc |-> "fn", cur |-> t, wakeAt |-> 0]]
            /\ execLog' = Append(execLog, [task |-> t, at |-> now, slept |-> FALSE])

\* processQueue: if (this.processing || this.queue.length === 0) return;
ProcessQueueReturnsEarlyNoFlag(q) == Len(q) = 0
ProcessQueueReturnsEarly(q) == processing \/ Len(q) = 0

\* processQueue: while (this.queue.length > 0)
LoopContinuesOffByOne(q) == Len(q) > 1
LoopContinues(q) == Len(q) > 0

\* resolve(result) in the try block, reject(err) in the catch block.
SettleSwallowsError(out) == [state |-> "resolved", payload |-> IF out.kind = "value" THEN out.payload ELSE 0]
Settle(out) ==
    IF out.kind = "value"
    THEN [state |-> "resolved", payload |-> out.payload]
    ELSE [state |-> "rejected", payload |-> out.payload]

\* Where processQueue stands once the wrapper has settled: the wrapper catches
\* every error of fn, so await task() always returns to the while loop.
AfterTask(out) == "loop"

\* execute(fn): the wrapper is pushed and processQueue is called; when no drain
\* is active, processQueue takes the flag, shifts the first task and runs it up
\* to its first await.
Execute ==
    /\ submitted < MaxTasks
    /\ submitted' = submitted + 1
    /\ LET t == submitted + 1
           q == Append(queue, t)
       IN  IF ProcessQueueReturnsEarly(q)
           THEN /\ queue' = q
                /\ UNCHANGED <<processing, callsThisMinute, lastResetTime, drain, execLog>>
           ELSE /\ processing' = TRUE
                /\ queue' = Tail(q)
                /\ TaskStart(t, Head(q))
    /\ UNCHANGED <<maxCallsPerMinute, promise, fnOutcome, now, hookVars, retryVars, tier, quoteVars, histVars, healthVars, scoreVars, lsVars, idbVars>>

\* The wrapper after await sleep(waitTime): the counter is reset and fn is called.
Wake(d) ==
    /\ drain[d].pc = "sleep"
    /\ now >= drain[d].wakeAt
    /\ callsThisMinute' = 0
    /\ lastResetTime' = now
    /\ drain' = [drain EXCEPT ![d] = [pc |-> "fn", cur |-> drain[d].cur, wakeAt |-> 0]]
    /\ execLog' = Append(execLog, [task |-> drain[d].cur, at |-> now, slept |-> TRUE])
    /\ UNCHANGED <<maxCallsPerMinute, queue, processing, submitted, promise, fnOutcome, now, hookVars, retryVars, tier, quoteVars, histVars, healthVars, scoreVars, lsVars, idbVars>>

\* The wrapper after await fn(): callsThisMinute++ and resolve(result), or the
\* catch block's reject(err).
FnSettles(d, kind) ==
    /\ drain[d].pc = "fn"
    /\ LET t == drain[d].cur
           out == [kind |-> kind, payload |-> t]
       IN  /\ fnOutcome' = [fnOutcome EXCEPT ![t] = out]
           /\ promise' = [promise EXCEPT ![t] = Settle(out)]
           /\ callsThisMinute' = IF kind = "value" THEN callsThisMinute + 1 ELSE callsThisMinute
           /\ drain' = [drain EXCEPT ![d].pc = AfterTask(out)]
    /\ UNCHANGED <<maxCallsPerMinute, queue, processing, lastResetTime, submitted, execLog, now, hookVars, retryVars, tier, quoteVars, histVars, healthVars, scoreVars, lsVars, idbVars>>

\* processQueue after await task(): the while test, then either the next
\* task's start or this.processing = false.
LoopStep(d) ==
    /\ drain[d].pc = "loop"
    /\ IF LoopContinues(queue)
       THEN /\ queue' = Tail(queue)
            /\ TaskStart(d, Head(queue))
            /\ UNCHANGED processing
       ELSE /\ processing' = FALSE
            /\ drain' = [drain EXCEPT ![d] = NoDrain]
            /\ UNCHANGED <<queue, callsThisMinute, lastResetTime, execLog>>
    /\ UNCHANGED <<maxCallsPerMinute, submitted, promise, fnOutcome, now, hookVars, retryVars, tier, quoteVars, histVars, healthVars, scoreVars, lsVars, idbVars>>

Sleeping == \E d \in Tasks : drain[d].pc = "sleep" /\ now < drain[d].wakeAt

\* Wall-clock time passes.
ClockMayAdvance == now < MaxNow \/ Sleeping

LimTick ==
    /\ ClockMayAdvance
    /\ now' = now + TickMs
    /\ UNCHANGED <<hookVars, limVars, retryVars, tier, quoteVars, histVars, healthVars, scoreVars, lsVars, idbVars>>

LimNext ==
    \/ Execute
    \/ \E d \in Tasks : Wake(d)
    \/ \E d \in Tasks, kind \in {"value", "error"} : FnSettles(d, kind)
    \/ \E d \in Tasks : LoopStep(d)
    \/ LimTick

(***************************************************************************)
(* fetchWithRetry                                                           *)
(***************************************************************************)
DefaultMaxRetries == 3
BaseDelay == 1000

MaxK == 3
MaxRetryTicks == 2

\* What one fetch(url) can come to: a 2xx response whose body parses, a 2xx
\* response whose json() rejects, a 429, another non-success status, or a
\* rejected fetch (network-level failure).
Outcomes == {"ok", "badjson", "429", "http", "network"}

NoResult == [kind |-> "none", cause |-> "none", attempt |-> 0]

\* Before the call.
RetryIdle ==
    /\ maxRetries = DefaultMaxRetries
    /\ retryPc = "idle"
    /\ attempt = 0
    /\ retryWakeAt = 0
    /\ attemptLog = <<>>
    /\ retryResult = NoResult

\* for (let i = 0; i < maxRetries; i++)
LoopCondInclusive(a, k) == a <= k
LoopCond(a, k) == a < k

\* RETRY_CONFIG.baseDelay * Math.pow(2, i)
BackoffConstant(a) == BaseDelay
Backoff(a) == BaseDelay * 2^a

\* catch (err) { if (i === maxRetries - 1) throw err; ... }
IsLastRetryOffByOne(a, k) == a = k
IsLastRetry(a, k) == a = k - 1

\* The loop test with i = a: either the next fetch(url) is issued or the loop
\* is left and 'Max retries exceeded' is thrown.
LoopTest(a, k) ==
    /\ attempt' = a
    /\ IF LoopCond(a, k)
       THEN /\ retryPc' = "fetch"
            /\ attemptLog' = Append(attemptLog,
                                [start |-> now, end |-> 0, outcome |-> "pending", delay |-> 0])
            /\ retryResult' = retryResult
       ELSE /\ retryPc' = "thrown"
            /\ attemptLog' = attemptLog
            /\ retryResult' = [kind |-> "error", cause |-> "max retries exceeded", attempt |-> a]

\* fetchWithRetry(url, maxRetries) is called.
FetchWithRetry(k) ==
    /\ retryPc = "idle"
    /\ maxRetries' = k
    /\ LoopTest(0, k)
    /\ UNCHANGED <<retryWakeAt, now, hookVars, limVars, tier, quoteVars, histVars, healthVars, scoreVars, lsVars, idbVars>>

Logged(o, d) ==
    [attemptLog EXCEPT ![Len(attemptLog)] =
        [start |-> attemptLog[Len(attemptLog)].start, end |-> now, outcome |-> o, delay |-> d]]

\* The awaited fetch (and, for a 2xx response, response.json()) settles, and the
\* loop body runs up to its return, its throw or its await sleep(delay).
FetchSettles(o) ==
    /\ retryPc = "fetch"
    /\ IF o = "ok"
       THEN /\ retryPc' = "returned"
            /\ retryResult' = [kind |-> "value", cause |-> "ok", attempt |-> attempt]
            /\ attemptLog' = Logged(o, 0)
            /\ UNCHANGED retryWakeAt
       ELSE IF o = "429"
       THEN /\ retryPc' = "sleep"
            /\ retryWakeAt' = now + Backoff(attempt)
            /\ attemptLog' = Logged(o, Backoff(attempt))
            /\ UNCHANGED retryResult
       ELSE \* the throw of line 27, a rejected fetch or a rejected json(): the catch block
            IF IsLastRetry(attempt, maxRetries)
            THEN /\ retryPc' = "thrown"
                 /\ retryResult' = [kind |-> "error", cause |-> o, attempt |-> attempt]
                 /\ attemptLog' = Logged(o, 0)
                 /\ UNCHANGED retryWakeAt
            ELSE /\ retryPc' = "sleep"
                 /\ retryWakeAt' = now + Backoff(attempt)
                 /\ attemptLog' = Logged(o, Backoff(attempt))
                 /\ UNCHANGED retryResult
    /\ UNCHANGED <<maxRetries, attempt, now, hookVars, limVars, tier, quoteVars, histVars, healthVars, scoreVars, lsVars, idbVars>>

\* sleep(delay) is over: i++ and the loop test.
RetryWake ==
    /\ retryPc = "sleep"
    /\ now >= retryWakeAt
    /\ LoopTest(attempt + 1, maxRetries)
    /\ UNCHANGED <<maxRetries, retryWakeAt, now, hookVars, limVars, tier, quoteVars, histVars, healthVars, scoreVars, lsVars, idbVars>>

RetryClockMayAdvance ==
    \/ now < MaxRetryTicks * BaseDelay
    \/ retryPc = "sleep" /\ now < retryWakeAt

RetryTick ==
    /\ RetryClockMayAdvance
    /\ now' = now + BaseDelay
    /\ UNCHANGED <<hookVars, limVars, retryVars, tier, quoteVars, histVars, healthVars, scoreVars, lsVars, idbVars>>

RetryNext ==
    \/ \E k \in 1..MaxK : FetchWithRetry(k)
    \/ \E o \in Outcomes : FetchSettles(o)
    \/ RetryWake
    \/ RetryTick

(***************************************************************************)
(* The durable cache tiers                                                  *)
(***************************************************************************)
CACHE_TTL == 15000

MaxKeys == 2
MaxCacheTicks == 2
LsQuota == 3
MaxPendingTx == 2

Keys == 1..MaxKeys
Values == {"a", "b"}
\* The ttl argument of set: 0 (an omitted ttl is falsy like 0) or a positive ttl.
TtlArgs == {0, CACHE_TTL}
\* The arguments of LocalStorageCache.set: every data and ttl under the first
\* key, one data and ttl under the others.
LsSetArgs ==
    {a \in [key : Keys, data : Values, ttl : TtlArgs] : a.key = 1 \/ (a.data = "a" /\ a.ttl = CACHE_TTL)}

Null == "null"
NoSet == [data |-> Null, ttl |-> 0, at |-> 0]
NoLsSet == [data |-> Null, ttl |-> 0, at |-> 0, healed |-> FALSE]
NoGet == [key |-> 0, result |-> Null, called |-> 0, fault |-> FALSE, corrupt |-> FALSE, age |-> -1, ttl |-> 0]

\* ttl || this.maxAge, ttl || this.defaultTTL
TtlOrDefaultKeepsZero(ttl, dflt) == ttl
TtlOrDefault(ttl, dflt) == IF ttl # 0 THEN ttl ELSE dflt

\* age > entry.ttl, with age = Date.now() - entry.timestamp
IsExpiredAtTtl(entry, t) == t - entry.timestamp >= entry.ttl
IsExpired(entry, t) == t - entry.timestamp > entry.ttl

(***************************************************************************)
(* LocalStorageCache over localStorage.  An item is the string               *)
(* JSON.stringify(entry), or a string JSON.parse throws on; the quota is    *)
(* counted in units of the shortest item: the value "b" is a longer one.    *)
(* A call made with fault finds the storage unavailable: getItem, setItem,  *)
(* removeItem or length throws (not QuotaExceededError).                    *)
(***************************************************************************)
LsMaxAge == 15 * 60 * 1000

NoItem == [text |-> "none", len |-> 0]
Corrupt == [text |-> "garbage", len |-> 1]
LengthOf(v) == IF v = "b" THEN 2 ELSE 1
Stringify(entry, len) == [text |-> "json", entry |-> entry, len |-> len]
Parses(item) == item.text = "json"
Parse(item) == item.entry

NoCall == [op |-> "none", key |-> 0, len |-> 0, outcome |-> "none", overflow |-> FALSE, evicted |-> <<>>]
Returned(op) == [op |-> op, key |-> 0, len |-> 0, outcome |-> "returned", overflow |-> FALSE, evicted |-> <<>>]

LsInit ==
    /\ lsStore = [k \in Keys |-> NoItem]
    /\ lsOther = 0
    /\ lsGot = NoGet
    /\ lsLastSet = [k \in Keys |-> NoLsSet]
    /\ lsCall = NoCall

LsCount(store) == Cardinality({k \in Keys : store[k] # NoItem})

\* what the items of the cache and of other code take of the quota
LsUsed(store) ==
    LET upTo[i \in 0..MaxKeys] == IF i = 0 THEN lsOther ELSE upTo[i - 1] + store[i].len
    IN  upTo[MaxKeys]

\* localStorage.setItem(cacheKey, item) throws QuotaExceededError
QuotaExceeded(store, k, item) == LsUsed(store) - store[k].len + item.len > LsQuota

\* cleanup(true): every item under the prefix is removed
CleanupAggressive(store) == [k \in Keys |-> NoItem]

\* keysToRemove of cleanup(true), in the order of localStorage.key(i)
KeysToRemove(store) == SelectSeq([k \in Keys |-> k], LAMBDA k : store[k] # NoItem)

\* cleanup(): expired items and items that do not parse are removed
Cleanup(store, t) ==
    [k \in Keys |-> IF store[k] = NoItem THEN NoItem
                    ELSE IF ~Parses(store[k]) THEN NoItem
                    ELSE IF IsExpired(Parse(store[k]), t) THEN NoItem
                    ELSE store[k]]

\* Date.now() - entry.timestamp of the entry under a key, -1 for none
LsAgeOf(item, t) == IF item = NoItem \/ ~Parses(item) THEN -1 ELSE t - Parse(item).timestamp

\* what get(key) returns: null for no item, for an item JSON.parse throws on
\* (the catch block) and for an expired entry
LsHit(store, k, t, fault) ==
    /\ ~fault
    /\ store[k] # NoItem
    /\ Parses(store[k])
    /\ ~IsExpired(Parse(store[k]), t)
LsGetValueUnparsed(store, k, t, fault) ==
    IF LsHit(store, k, t, fault) THEN Parse(store[k]).data
    ELSE IF ~fault /\ store[k] = Corrupt THEN store[k].text
    ELSE Null
LsGetValue(store, k, t, fault) ==
    IF LsHit(store, k, t, fault) THEN Parse(store[k]).data ELSE Null

\* localStorage after get(key): an expired entry is removed
LsAfterGet(store, k, t, fault) ==
    IF fault \/ store[k] = NoItem THEN store
    ELSE IF ~Parses(store[k]) THEN store
    ELSE IF IsExpired(Parse(store[k]), t) THEN [store EXCEPT ![k] = NoItem]
    ELSE store

\* whether set(key, ...) leaves its item in localStorage: at the first setItem,
\* or at the second one, made after cleanup(true)
LsSetStoresAlways(store, k, item) == TRUE
LsSetStores(store, k, item) ==
    ~QuotaExceeded(store, k, item) \/ ~QuotaExceeded(CleanupAggressive(store), k, item)

\* localStorage after set(key, data, ttl)
LsAfterSet(store, k, item) ==
    IF ~QuotaExceeded(store, k, item) THEN [store EXCEPT ![k] = item]
    ELSE IF LsSetStores(store, k, item) THEN [CleanupAggressive(store) EXCEPT ![k] = item]
    ELSE CleanupAggressive(store)

LastSetAfterSet(last, store, k, item, this) ==
    IF ~QuotaExceeded(store, k, item) THEN [last EXCEPT ![k] = this]
    ELSE [j \in Keys |-> IF j = k /\ LsSetStores(store, k, item) THEN this ELSE NoLsSet]

\* get(key)
LsGet(k, fault) ==
    /\ lsGot' = [key |-> k, result |-> LsGetValue(lsStore, k, now, fault), called |-> now,
                 fault |-> fault, corrupt |-> lsStore[k] = Corrupt,
                 age |-> LsAgeOf(lsStore[k], now),
                 ttl |-> IF LsAgeOf(lsStore[k], now) = -1 THEN 0 ELSE Parse(lsStore[k]).ttl]
    /\ lsStore' = LsAfterGet(lsStore, k, now, fault)
    /\ lsCall' = Returned("get")
    /\ UNCHANGED <<lsOther, lsLastSet, now, hookVars, limVars, retryVars, tier, quoteVars, histVars, healthVars, scoreVars, idbVars>>

\* set(key, data, ttl): setItem, and on QuotaExceededError cleanup(true) and
\* one more setItem, whose failure is logged only.
LsSet(k, v, ttl, fault) ==
    /\ LET item == Stringify([data |-> v, timestamp |-> now, ttl |-> TtlOrDefault(ttl, LsMaxAge)], LengthOf(v))
           this == [data |-> v, ttl |-> ttl, at |-> now, healed |-> lsStore[k] = Corrupt]
       IN  IF fault
           THEN /\ lsCall' = Returned("set")
                /\ UNCHANGED <<lsStore, lsLastSet>>
           ELSE /\ lsStore' = LsAfterSet(lsStore, k, item)
                /\ lsLastSet' = LastSetAfterSet(lsLastSet, lsStore, k, item, this)
                /\ lsCall' = [op |-> "set", key |-> k, len |-> item.len, outcome |-> "returned",
                              overflow |-> QuotaExceeded(lsStore, k, item),
                              evicted |-> IF QuotaExceeded(lsStore, k, item)
                                          THEN [i \in 1..Len(KeysToRemove(lsStore)) |->
                                                  lsStore[KeysToRemove(lsStore)[i]]]
                                          ELSE <<>>]
    /\ lsGot' = NoGet
    /\ UNCHANGED <<lsOther, now, hookVars, limVars, retryVars, tier, quoteVars, histVars, healthVars, scoreVars, idbVars>>

\* remove(key)
LsRemove(k, fault) ==
    /\ lsStore[k] # NoItem
    /\ IF fault
       THEN UNCHANGED <<lsStore, lsLastSet>>
       ELSE /\ lsStore' = [lsStore EXCEPT ![k] = NoItem]
            /\ lsLastSet' = [lsLastSet EXCEPT ![k] = NoLsSet]
    /\ lsGot' = NoGet
    /\ lsCall' = Returned("remove")
    /\ UNCHANGED <<lsOther, now, hookVars, limVars, retryVars, tier, quoteVars, histVars, healthVars, scoreVars, idbVars>>

\* clear()
LsClear(fault) ==
    /\ LsCount(lsStore) > 0
    /\ IF fault
       THEN UNCHANGED <<lsStore, lsLastSet>>
       ELSE /\ lsStore' = [k \in Keys |-> NoItem]
            /\ lsLastSet' = [k \in Keys |-> NoLsSet]
    /\ lsGot' = NoGet
    /\ lsCall' = Returned("clear")
    /\ UNCHANGED <<lsOther, now, hookVars, limVars, retryVars, tier, quoteVars, histVars, healthVars, scoreVars, idbVars>>

\* The page is loaded again: new LocalStorageCache(...), whose constructor
\* calls cleanup().
LsNew ==
    /\ lsStore' = Cleanup(lsStore, now)
    /\ lsLastSet' = [k \in Keys |-> IF Cleanup(lsStore, now)[k] = NoItem THEN NoLsSet ELSE lsLastSet[k]]
    /\ lsGot' = NoGet
    /\ lsCall' = Returned("new")
    /\ UNCHANGED <<lsOther, now, hookVars, limVars, retryVars, tier, quoteVars, histVars, healthVars, scoreVars, idbVars>>

\* Other code of the page stores or removes an item of its own in localStorage.
OtherStores ==
    /\ LsUsed(lsStore) < LsQuota
    /\ lsOther' = lsOther + 1
    /\ lsGot' = NoGet
    /\ lsCall' = NoCall
    /\ UNCHANGED <<lsStore, lsLastSet, now, hookVars, limVars, retryVars, tier, quoteVars, histVars, healthVars, scoreVars, idbVars>>

OtherRemoves ==
    /\ lsOther > 0
    /\ lsOther' = lsOther - 1
    /\ lsGot' = NoGet
    /\ lsCall' = NoCall
    /\ UNCHANGED <<lsStore, lsLastSet, now, hookVars, limVars, retryVars, tier, quoteVars, histVars, healthVars, scoreVars, idbVars>>

\* Something other than this cache (another script, the user) overwrites the
\* item under a cache key with text that is not JSON.
OtherCorrupts(k) ==
    /\ lsStore[k] # NoItem
    /\ lsStore[k] # Corrupt
    /\ lsStore' = [lsStore EXCEPT ![k] = Corrupt]
    /\ lsLastSet' = [lsLastSet EXCEPT ![k] = NoLsSet]
    /\ lsGot' = NoGet
    /\ lsCall' = NoCall
    /\ UNCHANGED <<lsOther, now, hookVars, limVars, retryVars, tier, quoteVars, histVars, healthVars, scoreVars, idbVars>>

LsTick ==
    /\ now < MaxCacheTicks * CACHE_TTL
    /\ now' = now + CACHE_TTL
    /\ lsGot' = NoGet
    /\ lsCall' = NoCall
    /\ UNCHANGED <<lsStore, lsOther, lsLastSet, hookVars, limVars, retryVars, tier, quoteVars, histVars, healthVars, scoreVars, idbVars>>

(***************************************************************************)
(* IndexedDBCache over one object store.  Each call creates its transaction *)
(* after await ensureInit(), within the caller's own run; transactions on   *)
(* the store run in creation order.  The connection is open, or it never    *)
(* opened (the open request failed: this.db stays null and initPromise is   *)
(* rejected), or the browser has closed it since (this.db is still set, and *)
(* this.db.transaction throws InvalidStateError).                           *)
(***************************************************************************)
IdbDefaultTTL == 60 * 60 * 1000

Ids == {"SPY:5min"}
NoRecord == [data |-> Null, timestamp |-> 0, ttl |-> 0]
NoIdbGet == [key |-> "none", result |-> Null, called |-> 0, fault |-> FALSE, age |-> -1, ttl |-> 0]
NoIdbCall == [op |-> "none", outcome |-> "none"]

\* new IndexedDBCache(...): indexedDB.open succeeds, or it fails and init() rejects
IdbInitWith(conns) ==
    /\ idbStore = [id \in Ids |-> NoRecord]
    /\ idbTx = <<>>
    /\ idbGot = NoIdbGet
    /\ idbLastSet = [id \in Ids |-> NoSet]
    /\ idbConn \in conns
    /\ idbCall = NoIdbCall

IdbInit == IdbInitWith({"open"})

Tx(op, id, entry, arg, lazy) ==
    [op |-> op, id |-> id, entry |-> entry, arg |-> arg, lazy |-> lazy, called |-> now]

\* A call up to its first suspension.  await this.ensureInit() throws within
\* the try block when the database never opened, and the catch block returns.
\* return new Promise(executor) is not awaited: when the executor throws, the
\* promise returned to the caller is rejected and the catch block is not run.
OutcomeWithoutRequest(conn) == IF conn = "closed" THEN "rejected" ELSE "resolved"

IdbCallStarts(op, tx) ==
    IF idbConn = "open"
    THEN /\ Len(idbTx) < MaxPendingTx
         /\ idbTx' = Append(idbTx, tx)
         /\ idbCall' = NoIdbCall
         /\ idbGot' = NoIdbGet
    ELSE /\ idbCall' = [op |-> op, outcome |-> OutcomeWithoutRequest(idbConn)]
         /\ idbGot' = IF op = "get" /\ OutcomeWithoutRequest(idbConn) = "resolved"
                      THEN [key |-> tx.id, result |-> Null, called |-> now, fault |-> TRUE, age |-> -1, ttl |-> 0]
                      ELSE NoIdbGet
         /\ UNCHANGED idbTx

\* get(ticker, interval) up to its request: a readonly transaction and store.get(id)
IdbGet(id) ==
    /\ IdbCallStarts("get", Tx("get", id, NoRecord, 0, FALSE))
    /\ UNCHANGED <<idbStore, idbLastSet, idbConn, now, hookVars, limVars, retryVars, tier, quoteVars, histVars, healthVars, scoreVars, lsVars>>

\* set(ticker, interval, data, ttl) up to its request: a readwrite transaction
\* and store.put(entry), the entry stamped with Date.now()
IdbSet(id, v, ttl) ==
    /\ IdbCallStarts("set",
           Tx("put", id, [data |-> v, timestamp |-> now, ttl |-> TtlOrDefault(ttl, IdbDefaultTTL)], ttl, FALSE))
    /\ UNCHANGED <<idbStore, idbLastSet, idbConn, now, hookVars, limVars, retryVars, tier, quoteVars, histVars, healthVars, scoreVars, lsVars>>

\* remove(ticker, interval) up to its request: a readwrite transaction and store.delete(id)
IdbRemove(id) ==
    /\ IdbCallStarts("remove", Tx("delete", id, NoRecord, 0, FALSE))
    /\ UNCHANGED <<idbStore, idbLastSet, idbConn, now, hookVars, limVars, retryVars, tier, quoteVars, histVars, healthVars, scoreVars, lsVars>>

\* clear() up to its request: a readwrite transaction and store.clear()
IdbClear ==
    /\ \E id \in Ids : IdbCallStarts("clear", Tx("clear", id, NoRecord, 0, FALSE))
    /\ UNCHANGED <<idbStore, idbLastSet, idbConn, now, hookVars, limVars, retryVars, tier, quoteVars, histVars, healthVars, scoreVars, lsVars>>

\* what the promise of the call behind a transaction is named for
CallOf(tx) == IF tx.op = "put" THEN "set" ELSE IF tx.op = "delete" THEN "remove" ELSE tx.op

\* The oldest transaction runs and its request's onsuccess handler is called.
\* The handler of get resolves with the data, or with null for no entry and for
\* an expired one, which it removes by calling this.remove (a new transaction).
IdbRequestSucceeds ==
    /\ Len(idbTx) > 0
    /\ LET tx == Head(idbTx)
           entry == idbStore[tx.id]
       IN  IF tx.op = "get"
           THEN IF entry = NoRecord
                THEN /\ idbGot' = [key |-> tx.id, result |-> Null, called |-> tx.called, fault |-> FALSE,
                                     age |-> -1, ttl |-> 0]
                     /\ idbTx' = Tail(idbTx)
                     /\ UNCHANGED <<idbStore, idbLastSet>>
                ELSE IF IsExpired(entry, now)
                THEN /\ idbGot' = [key |-> tx.id, result |-> Null, called |-> tx.called, fault |-> FALSE,
                                     age |-> now - entry.timestamp, ttl |-> entry.ttl]
                     /\ idbTx' = Append(Tail(idbTx), Tx("delete", tx.id, NoRecord, 0, TRUE))
                     /\ UNCHANGED <<idbStore, idbLastSet>>
                ELSE /\ idbGot' = [key |-> tx.id, result |-> entry.data, called |-> tx.called, fault |-> FALSE,
                                     age |-> now - entry.timestamp, ttl |-> entry.ttl]
                     /\ idbTx' = Tail(idbTx)
                     /\ UNCHANGED <<idbStore, idbLastSet>>
           ELSE IF tx.op = "put"
           THEN /\ idbStore' = [idbStore EXCEPT ![tx.id] = tx.entry]
                /\ idbLastSet' = [idbLastSet EXCEPT ![tx.id] =
                                    [data |-> tx.entry.data, ttl |-> tx.arg, at |-> tx.entry.timestamp]]
                /\ idbTx' = Tail(idbTx)
                /\ idbGot' = NoIdbGet
           ELSE IF tx.op = "delete"
           THEN /\ idbStore' = [idbStore EXCEPT ![tx.id] = NoRecord]
                /\ idbLastSet' = IF tx.lazy THEN idbLastSet ELSE [idbLastSet EXCEPT ![tx.id] = NoSet]
                /\ idbTx' = Tail(idbTx)
                /\ idbGot' = NoIdbGet
           ELSE /\ idbStore' = [id \in Ids |-> NoRecord]
                /\ idbLastSet' = [id \in Ids |-> NoSet]
                /\ idbTx' = Tail(idbTx)
                /\ idbGot' = NoIdbGet
    /\ idbCall' = [op |-> CallOf(Head(idbTx)), outcome |-> "resolved"]
    /\ UNCHANGED <<idbConn, now, hookVars, limVars, retryVars, tier, quoteVars, histVars, healthVars, scoreVars, lsVars>>

\* The request of the oldest transaction fails and its onerror handler is
\* called: it logs and resolves, a get with null.
IdbRequestFails ==
    /\ Len(idbTx) > 0
    /\ LET tx == Head(idbTx) IN
       /\ idbGot' = IF tx.op = "get"
                    THEN [key |-> tx.id, result |-> Null, called |-> tx.called, fault |-> TRUE, age |-> -1, ttl |-> 0]
                    ELSE NoIdbGet
       /\ idbCall' = [op |-> CallOf(tx), outcome |-> "resolved"]
    /\ idbTx' = Tail(idbTx)
    /\ UNCHANGED <<idbStore, idbLastSet, idbConn, now, hookVars, limVars, retryVars, tier, quoteVars, histVars, healthVars, scoreVars, lsVars>>

\* The browser closes the connection while no transaction is pending: the
\* site's data is cleared.
IdbConnectionCloses ==
    /\ idbConn = "open"
    /\ idbTx = <<>>
    /\ idbConn' = "closed"
    /\ idbCall' = NoIdbCall
    /\ idbGot' = NoIdbGet
    /\ idbStore' = [id \in Ids |-> NoRecord]
    /\ idbLastSet' = [id \in Ids |-> NoSet]
    /\ UNCHANGED <<idbTx, now, hookVars, limVars, retryVars, tier, quoteVars, histVars, healthVars, scoreVars, lsVars>>

IdbTick ==
    /\ now < MaxCacheTicks * CACHE_TTL
    /\ now' = now + CACHE_TTL
    /\ idbGot' = NoIdbGet
    /\ idbCall' = NoIdbCall
    /\ UNCHANGED <<idbStore, idbTx, idbLastSet, idbConn, hookVars, limVars, retryVars, tier, quoteVars, histVars, healthVars, scoreVars, lsVars>>

(***************************************************************************)
(* MarketDataService.fetchQuote over this.cache (the memory tier), the      *)
(* LocalStorageCache item quote:<ticker> and the upstream API, which stands *)
(* for finnhubLimiter.execute(() => fetchWithRetry(url)).  A quote carries  *)
(* the time it was obtained and where from.  One call per ticker is in      *)
(* flight at a time.                                                        *)
(***************************************************************************)
MaxQuoteTicks == 4

Tickers == {1}
QuoteTickMs == CACHE_TTL \div 2
NoQuote == [c |-> "none", fetchedAt |-> 0, src |-> "none"]
NoMem == [data |-> NoQuote, timestamp |-> 0]
NoQuoteGot == [ticker |-> 0, result |-> NoQuote, from |-> "none", memAge |-> -1, lsAge |-> -1]
Quote(v, src) == [c |-> v, fetchedAt |-> now, src |-> src]

QuoteInit ==
    /\ useStaticData = TRUE
    /\ memCache = [tk \in Tickers |-> NoMem]
    /\ quotePc = [tk \in Tickers |-> "idle"]
    /\ quoteGot = NoQuoteGot

\* memoryCached && Date.now() - memoryCached.timestamp < CACHE_TTL
MemoryHitInverted(entry, t) == entry # NoMem /\ t - entry.timestamp > CACHE_TTL
MemoryHit(entry, t) == entry # NoMem /\ t - entry.timestamp < CACHE_TTL

\* this.cache.set(ticker, { data: storageCached, timestamp: Date.now() })
Promoted(d, t) == [data |-> d, timestamp |-> t]

AgeOf(entry, t) == IF entry = NoMem THEN -1 ELSE t - entry.timestamp

\* Layers 1 to 3 of fetchQuote, up to the await of the upstream call
Layers(tk) ==
    LET fromLs == LsGetValue(lsStore, tk, now, FALSE)
        hit == LsHit(lsStore, tk, now, FALSE)
        ages == [memAge |-> AgeOf(memCache[tk], now), lsAge |-> LsAgeOf(lsStore[tk], now)]
    IN  IF MemoryHit(memCache[tk], now)
        THEN /\ quoteGot' = [ticker |-> tk, result |-> memCache[tk].data, from |-> "memory"] @@ ages
             /\ quotePc' = [quotePc EXCEPT ![tk] = "idle"]
             /\ UNCHANGED <<memCache, lsStore>>
        ELSE IF hit
        THEN /\ memCache' = [memCache EXCEPT ![tk] = Promoted(fromLs, now)]
             /\ quoteGot' = [ticker |-> tk, result |-> fromLs, from |-> "localStorage"] @@ ages
             /\ quotePc' = [quotePc EXCEPT ![tk] = "idle"]
             /\ UNCHANGED lsStore
        ELSE /\ lsStore' = LsAfterGet(lsStore, tk, now, FALSE)
             /\ quotePc' = [quotePc EXCEPT ![tk] = "upstream"]
             /\ quoteGot' = NoQuoteGot
             /\ UNCHANGED memCache

\* fetchQuote(ticker) up to its first await
FetchQuote(tk) ==
    /\ quotePc[tk] = "idle"
    /\ IF useStaticData
       THEN /\ quotePc' = [quotePc EXCEPT ![tk] = "static"]
            /\ quoteGot' = NoQuoteGot
            /\ UNCHANGED <<memCache, lsStore>>
       ELSE Layers(tk)
    /\ UNCHANGED <<useStaticData, lsOther, lsGot, lsLastSet, lsCall, now, hookVars, limVars, retryVars, tier, histVars, healthVars, scoreVars, idbVars>>

\* await staticDataService.getInstrument(ticker) settles: with an instrument,
\* with none, or by throwing
StaticSettles(tk, found, v) ==
    /\ quotePc[tk] = "static"
    /\ IF found
       THEN /\ memCache' = [memCache EXCEPT ![tk] = Promoted(Quote(v, "static"), now)]
            /\ quoteGot' = [ticker |-> tk, result |-> Quote(v, "static"), from |-> "static",
                            memAge |-> -1, lsAge |-> -1]
            /\ quotePc' = [quotePc EXCEPT ![tk] = "idle"]
            /\ UNCHANGED lsStore
       ELSE Layers(tk)
    /\ UNCHANGED <<useStaticData, lsOther, lsGot, lsLastSet, lsCall, now, hookVars, limVars, retryVars, tier, histVars, healthVars, scoreVars, idbVars>>

\* The upstream call settles.  On success both tiers are written:
\* this.cache.set(...) and localStorageCache.set(`quote:${ticker}`, data, CACHE_TTL).
UpstreamSettles(tk, ok, v) ==
    /\ quotePc[tk] = "upstream"
    /\ quotePc' = [quotePc EXCEPT ![tk] = "idle"]
    /\ IF ok
       THEN LET q == Quote(v, "api")
                item == Stringify([data |-> q, timestamp |-> now, ttl |-> TtlOrDefault(CACHE_TTL, LsMaxAge)], 1)
            IN  /\ memCache' = [memCache EXCEPT ![tk] = Promoted(q, now)]
                /\ lsStore' = LsAfterSet(lsStore, tk, item)
                /\ quoteGot' = [ticker |-> tk, result |-> q, from |-> "upstream", memAge |-> -1, lsAge |-> -1]
       ELSE /\ quoteGot' = [ticker |-> tk, result |-> NoQuote, from |-> "APIError", memAge |-> -1, lsAge |-> -1]
            /\ UNCHANGED <<memCache, lsStore>>
    /\ UNCHANGED <<useStaticData, lsOther, lsGot, lsLastSet, lsCall, now, hookVars, limVars, retryVars, tier, histVars, healthVars, scoreVars, idbVars>>

\* setUseStaticData(enabled)
SetUseStaticData(enabled) ==
    /\ useStaticData # enabled
    /\ useStaticData' = enabled
    /\ quoteGot' = NoQuoteGot
    /\ UNCHANGED <<memCache, quotePc, lsVars, now, hookVars, limVars, retryVars, tier, histVars, healthVars, scoreVars, idbVars>>

\* The page is loaded again: the calls in flight are gone, the service and
\* its memory tier are new, localStorage stays and new LocalStorageCache(...)
\* runs cleanup().
Restart ==
    /\ useStaticData' = TRUE
    /\ memCache' = [tk \in Tickers |-> NoMem]
    /\ quotePc' = [tk \in Tickers |-> "idle"]
    /\ quoteGot' = NoQuoteGot
    /\ lsStore' = Cleanup(lsStore, now)
    /\ UNCHANGED <<lsOther, lsGot, lsLastSet, lsCall, now, hookVars, limVars, retryVars, tier, histVars, healthVars, scoreVars, idbVars>>

QuoteTick ==
    /\ now < MaxQuoteTicks * QuoteTickMs
    /\ now' = now + QuoteTickMs
    /\ quoteGot' = NoQuoteGot
    /\ UNCHANGED <<useStaticData, memCache, quotePc, lsVars, hookVars, limVars, retryVars, tier, histVars, healthVars, scoreVars, idbVars>>

UsesLs == tier = "localStorage"
UsesIdb == tier = "indexedDB"
UsesQuote == tier = "fetchQuote"

CacheNext ==
    \/ UsesLs /\ \E k \in Keys, fault \in BOOLEAN : LsGet(k, fault)
    \/ UsesLs /\ \E a \in LsSetArgs, fault \in BOOLEAN : LsSet(a.key, a.data, a.ttl, fault)
    \/ UsesLs /\ \E k \in Keys, fault \in BOOLEAN : LsRemove(k, fault)
    \/ UsesLs /\ \E fault \in BOOLEAN : LsClear(fault)
    \/ UsesLs /\ LsNew
    \/ UsesLs /\ OtherStores
    \/ UsesLs /\ OtherRemoves
    \/ UsesLs /\ \E k \in Keys : OtherCorrupts(k)
    \/ UsesLs /\ LsTick
    \/ UsesIdb /\ \E id \in Ids : IdbGet(id)
    \/ UsesIdb /\ \E id \in Ids, v \in Values, ttl \in TtlArgs : IdbSet(id, v, ttl)
    \/ UsesIdb /\ \E id \in Ids : IdbRemove(id)
    \/ UsesIdb /\ IdbClear
    \/ UsesIdb /\ IdbRequestSucceeds
    \/ UsesIdb /\ IdbRequestFails
    \/ UsesIdb /\ IdbConnectionCloses
    \/ UsesIdb /\ IdbTick
    \/ UsesQuote /\ \E tk \in Tickers : FetchQuote(tk)
    \/ UsesQuote /\ \E tk \in Tickers, found \in BOOLEAN, v \in Values : StaticSettles(tk, found, v)
    \/ UsesQuote /\ \E tk \in Tickers, ok \in BOOLEAN, v \in Values : UpstreamSettles(tk, ok, v)
    \/ UsesQuote /\ \E enabled \in BOOLEAN : SetUseStaticData(enabled)
    \/ UsesQuote /\ Restart
    \/ UsesQuote /\ QuoteTick

\* fetchQuote on a page whose other code stores items of its own in
\* localStorage.
QuoteNext ==
    \/ \E tk \in Tickers : FetchQuote(tk)
    \/ \E tk \in Tickers, found \in BOOLEAN, v \in Values : StaticSettles(tk, found, v)
    \/ \E tk \in Tickers, ok \in BOOLEAN, v \in Values : UpstreamSettles(tk, ok, v)
    \/ \E enabled \in BOOLEAN : SetUseStaticData(enabled)
    \/ Restart
    \/ QuoteTick
    \/ OtherStores
    \/ OtherRemoves

(***************************************************************************)
(* scoreHistory over the localStorage item marketCompass_scoreHistory.  A   *)
(* date is the day number of the UTC day: toISOString().split('T')[0]       *)
(* writes it as YYYY-MM-DD, and localeCompare orders those strings as the   *)
(* day numbers are ordered.  The item is JSON.stringify of the entry list.  *)
(***************************************************************************)
MAX_HISTORY_DAYS == 60
PercentileDays == 30
ReducedDays == 30

MaxHistTicks == 2

DayMs == 24 * 60 * 60 * 1000
HistTickMs == DayMs \div 2
HistStart == 2 * DayMs
Composites == {40, 60}
\* the arguments of saveScore: a composite and the pillar scores behind it
SaveArgs == {[composite |-> 40, pillars |-> "p"], [composite |-> 60, pillars |-> "q"]}
\* the setItem of the try block succeeds; or it throws and the one of the
\* catch block succeeds; or both throw
WriteOutcomes == {"saved", "reduced", "skipped"}
\* which of the two setItem calls throw, if reached
WriteFaults == {[primary |-> FALSE, reduced |-> FALSE],
                [primary |-> TRUE, reduced |-> FALSE],
                [primary |-> TRUE, reduced |-> TRUE]}
InitLens == {0, PercentileDays - 1, MAX_HISTORY_DAYS}
InitPatterns == {"flat", "mixed"}

NoSave == [date |-> 0, composite |-> 0, pillars |-> "none", outcome |-> "none",
           primaryThrew |-> FALSE, reducedThrew |-> FALSE, had |-> FALSE, dropped |-> {}]
NoWritten == [at |-> -1, date |-> 0]
\* getPercentile30d returns null: no number (a percentile is in 0..100)
NullPercentile == -1
NoQuery == [score |-> 0, result |-> NullPercentile]

\* new Date().toISOString().split('T')[0]
UtcDate(t) == t \div DayMs

\* The calendar date at the exchange (New York, standard time: UTC-5).
ExchangeOffsetHours == 5
ExchangeDate(t) == (t - ExchangeOffsetHours * (DayMs \div 24)) \div DayMs

HStringify(list) == [text |-> "json", list |-> list]
\* JSON.stringify of a string of len characters
HStringifyString(len) == [text |-> "string", len |-> len]

\* Items that are not the JSON text of a list: text that JSON.parse rejects,
\* the JSON texts null, {}, 42 and of a string (len: its characters), and the
\* empty text, which getItem(...) || '[]' replaces by '[]'.
StringLens == {5, 40}
CorruptItems ==
    {[text |-> k, len |-> 0] : k \in {"invalid", "null", "object", "number", "empty"}}
        \cup {HStringifyString(n) : n \in StringLens}

\* What JSON.parse(localStorage.getItem(STORAGE_KEY) || '[]') gives: it throws
\* a SyntaxError, or returns a value of this type.
ParsedTypeOf(item) ==
    IF item.text \in {"none", "empty", "json"} THEN "array"
    ELSE IF item.text = "invalid" THEN "throws"
    ELSE item.text
\* the list, when JSON.parse returns one
HParse(item) == IF item.text = "json" THEN item.list ELSE <<>>

\* history.length: a TypeError on null, undefined on an object without that
\* property and on a number, the number of characters of a string
NoLength == [kind |-> "none", value |-> 0]
HistoryLength(item) ==
    IF ParsedTypeOf(item) \in {"throws", "null"} THEN [kind |-> "throws", value |-> 0]
    ELSE IF ParsedTypeOf(item) \in {"object", "number"} THEN [kind |-> "undefined", value |-> 0]
    ELSE IF ParsedTypeOf(item) = "string" THEN [kind |-> "number", value |-> item.len]
    ELSE [kind |-> "number", value |-> Len(HParse(item))]

\* history.filter(...) in the try block: only an array has filter
FilterThrows(item) == ParsedTypeOf(item) # "array"
\* JSON.parse and history.slice(0, 30) in the catch block: arrays and strings
\* have slice
SliceThrows(item) == ParsedTypeOf(item) \notin {"array", "string"}

Dates(list) == {list[i].date : i \in 1..Len(list)}

\* A history saveScore has written: one save on each of the n days before
\* the first day of the run, newest first.
InitComposite(pattern, i) ==
    IF pattern = "flat" THEN 60
    ELSE IF i % 3 = 0 THEN 60 ELSE 40
InitHistory(n, pattern) ==
    [i \in 1..n |-> [date |-> UtcDate(HistStart) - i, composite |-> InitComposite(pattern, i),
                  pillars |-> IF InitComposite(pattern, i) = 40 THEN "p" ELSE "q"]]

HistIdle ==
    /\ history = NoItem
    /\ lastSave = NoSave
    /\ lastWritten = NoWritten
    /\ lastQuery = NoQuery
    /\ lastLength = NoLength

HistInit ==
    /\ \E n \in InitLens, pattern \in InitPatterns :
         history = IF n = 0 THEN NoItem ELSE HStringify(InitHistory(n, pattern))
    /\ lastSave = NoSave
    /\ lastWritten = NoWritten
    /\ lastQuery = NoQuery
    /\ lastLength = NoLength

\* history.filter(e => e.date !== today)
WithoutDateKeepsAll(list, today) == list
WithoutDate(list, today) == SelectSeq(list, LAMBDA e : e.date # today)

\* filtered.sort((a, b) => b.date.localeCompare(a.date)): a stable sort.  Each
\* entry goes to the place its rank gives it; when only the last entry is out
\* of place, that is right after the entries that are not older than it.
RankDescending(list) ==
    [j \in 1..Len(list) |->
        1 + Cardinality({m \in 1..Len(list) : list[m].date > list[j].date})
          + Cardinality({m \in 1..(j - 1) : list[m].date = list[j].date})]
IsDescending(list) == \A i \in 1..(Len(list) - 1) : list[i].date >= list[i + 1].date
InsertDescending(e, sorted) ==
    LET k == Cardinality({i \in 1..Len(sorted) : sorted[i].date >= e.date})
    IN  SubSeq(sorted, 1, k) \o <<e>> \o SubSeq(sorted, k + 1, Len(sorted))
SortDescendingSkipped(list) == list
SortDescending(list) ==
    IF list # <<>> /\ IsDescending(SubSeq(list, 1, Len(list) - 1))
    THEN InsertDescending(list[Len(list)], SubSeq(list, 1, Len(list) - 1))
    ELSE LET rank == RankDescending(list)
         IN  [i \in 1..Len(list) |-> list[CHOOSE j \in 1..Len(list) : rank[j] = i]]

\* list.slice(0, n)
SliceFromEnd(list, n) == SubSeq(list, IF Len(list) < n THEN 1 ELSE Len(list) - n + 1, Len(list))
Slice(list, n) == SubSeq(list, 1, IF Len(list) < n THEN Len(list) ELSE n)

\* the characters of string.slice(0, n)
SliceString(len, n) == IF len < n THEN len ELSE n

\* the list saveScore writes at its first setItem
Trimmed(list, entry) ==
    Slice(SortDescending(Append(WithoutDate(list, entry.date), entry)), MAX_HISTORY_DAYS)

\* How saveScore ends: the try block's setItem throwing leads to the catch
\* block, whose own try has an empty catch.
OutcomeUncaught(primaryThrows, reducedThrows) ==
    IF ~primaryThrows THEN "saved" ELSE IF ~reducedThrows THEN "reduced" ELSE "raised"
Outcome(primaryThrows, reducedThrows) ==
    IF ~primaryThrows THEN "saved" ELSE IF ~reducedThrows THEN "reduced" ELSE "skipped"

\* saveScore(composite, pillars)
SaveScore(composite, pillars, primaryThrows, reducedThrows) ==
    LET list == HParse(history)
        outcome == Outcome(FilterThrows(history) \/ primaryThrows, SliceThrows(history) \/ reducedThrows)
        entry == [date |-> UtcDate(now), composite |-> composite, pillars |-> pillars]
        written == IF outcome = "saved" THEN Trimmed(list, entry) ELSE Slice(list, ReducedDays)
    IN  /\ history' = IF outcome \notin {"saved", "reduced"} THEN history
                       ELSE IF ParsedTypeOf(history) = "string"
                       THEN HStringifyString(SliceString(history.len, ReducedDays))
                       ELSE HStringify(written)
        /\ lastSave' = [date |-> entry.date, composite |-> composite, pillars |-> pillars,
                        outcome |-> outcome,
                        primaryThrew |-> primaryThrows, reducedThrew |-> reducedThrows,
                        had |-> entry.date \in Dates(list),
                        dropped |-> IF outcome \notin {"saved", "reduced"} THEN {}
                                    ELSE IF outcome = "reduced" THEN Dates(list) \ Dates(written)
                                    ELSE (Dates(list) \cup {entry.date}) \ Dates(written)]
        /\ lastWritten' = IF outcome = "saved" THEN [at |-> now, date |-> entry.date] ELSE lastWritten
        /\ lastQuery' = NoQuery
        /\ lastLength' = NoLength
        /\ UNCHANGED <<now, hookVars, limVars, retryVars, tier, quoteVars, healthVars, scoreVars, lsVars, idbVars>>

\* history.length < 30
TooFewInclusive(list) == Len(list) <= PercentileDays
TooFew(list) == Len(list) < PercentileDays

\* last30Scores.filter(score => score < todayScore).length
ScoresAbove(list, todayScore) ==
    Cardinality({i \in 1..Len(list) : list[i].composite > todayScore})
ScoresBelowOrEqual(list, todayScore) ==
    Cardinality({i \in 1..Len(list) : list[i].composite <= todayScore})
ScoresBelow(list, todayScore) ==
    Cardinality({i \in 1..Len(list) : list[i].composite < todayScore})

\* Math.round((scoresBelow / 30) * 100): the quotient 100 * scoresBelow / 30
\* has no fractional part of one half, so rounding is to the nearest integer
RoundPercent(scoresBelow) == (2 * 100 * scoresBelow + PercentileDays) \div (2 * PercentileDays)

\* getPercentile30d(todayScore)
GetPercentile30dValue(list, todayScore) ==
    IF TooFew(list) THEN NullPercentile
    ELSE RoundPercent(ScoresBelow(Slice(list, PercentileDays), todayScore))

\* JSON.parse or history.length throwing leads to the catch block; undefined
\* < 30 is false; a value that is not an array has no slice or no map, and the
\* TypeError leads to the catch block.
GetPercentile30dOf(item, todayScore) ==
    IF HistoryLength(item).kind = "throws" THEN NullPercentile
    ELSE IF HistoryLength(item).kind = "number" /\ HistoryLength(item).value < PercentileDays THEN NullPercentile
    ELSE IF ParsedTypeOf(item) # "array" THEN NullPercentile
    ELSE GetPercentile30dValue(HParse(item), todayScore)

GetPercentile30d(todayScore) ==
    /\ lastQuery' = [score |-> todayScore, result |-> GetPercentile30dOf(history, todayScore)]
    /\ lastSave' = NoSave
    /\ lastLength' = NoLength
    /\ UNCHANGED <<history, lastWritten, now, hookVars, limVars, retryVars, tier, quoteVars, healthVars, scoreVars, lsVars, idbVars>>

\* getHistoryLength(): history.length, or 0 from the catch block
GetHistoryLengthOf(item) ==
    IF HistoryLength(item).kind = "throws" THEN [kind |-> "number", value |-> 0] ELSE HistoryLength(item)

GetHistoryLength ==
    /\ lastLength' = GetHistoryLengthOf(history)
    /\ lastSave' = NoSave
    /\ lastQuery' = NoQuery
    /\ UNCHANGED <<history, lastWritten, now, hookVars, limVars, retryVars, tier, quoteVars, healthVars, scoreVars, lsVars, idbVars>>

\* clearHistory()
ClearHistory ==
    /\ history # NoItem
    /\ history' = NoItem
    /\ lastSave' = NoSave
    /\ lastWritten' = NoWritten
    /\ lastQuery' = NoQuery
    /\ lastLength' = NoLength
    /\ UNCHANGED <<now, hookVars, limVars, retryVars, tier, quoteVars, healthVars, scoreVars, lsVars, idbVars>>

HistTick ==
    /\ now < HistStart + MaxHistTicks * HistTickMs
    /\ now' = now + HistTickMs
    /\ lastSave' = NoSave
    /\ lastQuery' = NoQuery
    /\ lastLength' = NoLength
    /\ UNCHANGED <<history, lastWritten, hookVars, limVars, retryVars, tier, quoteVars, healthVars, scoreVars, lsVars, idbVars>>

\* The system clock is set back by a day.
ClockSetBack ==
    /\ now >= HistStart
    /\ now' = now - DayMs
    /\ lastSave' = NoSave
    /\ lastQuery' = NoQuery
    /\ lastLength' = NoLength
    /\ UNCHANGED <<history, lastWritten, hookVars, limVars, retryVars, tier, quoteVars, healthVars, scoreVars, lsVars, idbVars>>

HistNext ==
    \/ \E a \in SaveArgs, f \in WriteFaults : SaveScore(a.composite, a.pillars, f.primary, f.reduced)
    \/ \E s \in Composites : GetPercentile30d(s)
    \/ GetHistoryLength
    \/ ClearHistory
    \/ HistTick
    \/ ClockSetBack

\* The history functions over an item that is not the JSON text of a list.
CorruptInit ==
    /\ history \in CorruptItems
    /\ lastSave = NoSave
    /\ lastWritten = NoWritten
    /\ lastQuery = NoQuery
    /\ lastLength = NoLength

CorruptNext ==
    \/ \E a \in SaveArgs, f \in WriteFaults : SaveScore(a.composite, a.pillars, f.primary, f.reduced)
    \/ \E s \in Composites : GetPercentile30d(s)
    \/ GetHistoryLength
    \/ HistTick

(***************************************************************************)
(* The dashboard store's health score (updateHealthData) over the           *)
(* localStorage item health-score-yesterday of healthScore.ts.              *)
(***************************************************************************)
MaxHealthTicks == 4

InitialHealthScore == 50
HealthScores == {40, 60}
HealthDays == 0..((MaxHealthTicks * HistTickMs) \div DayMs)
\* getYesterdayScore returns null; no score saved on a day; no update yet
NullScore == -1
NoDay == -1

\* JSON.stringify({ score, date: today })
StoredScore(score, t) == [text |-> "json", score |-> score, date |-> UtcDate(t)]

\* getYesterdayScore()
GetYesterdayScore(item, t) ==
    IF item = NoItem THEN NullScore
    ELSE IF item.date = UtcDate(t) - 1 THEN item.score
    ELSE NullScore

HealthInit ==
    /\ healthItem = NoItem
    /\ healthScore = InitialHealthScore
    /\ previousScore = NullScore
    /\ savedByDay = [d \in HealthDays |-> NullScore]
    /\ updatedOn = NoDay

\* updateHealthData(result): set({ healthScore, previousScore: getYesterdayScore() }),
\* then saveYesterdayScore(result.score), whose setItem may throw (caught).
UpdateHealthData(score, throws) ==
    /\ healthScore' = score
    /\ previousScore' = GetYesterdayScore(healthItem, now)
    /\ healthItem' = IF throws THEN healthItem ELSE StoredScore(score, now)
    /\ savedByDay' = IF throws THEN savedByDay ELSE [savedByDay EXCEPT ![UtcDate(now)] = score]
    /\ updatedOn' = UtcDate(now)
    /\ UNCHANGED <<now, hookVars, limVars, retryVars, tier, quoteVars, histVars, scoreVars, lsVars, idbVars>>

\* The page is loaded again: the store is created with healthScore 50 and
\* previousScore getYesterdayScore().
StoreCreated ==
    /\ healthScore' = InitialHealthScore
    /\ previousScore' = GetYesterdayScore(healthItem, now)
    /\ updatedOn' = NoDay
    /\ UNCHANGED <<healthItem, savedByDay, now, hookVars, limVars, retryVars, tier, quoteVars, histVars, scoreVars, lsVars, idbVars>>

HealthTick ==
    /\ now < MaxHealthTicks * HistTickMs
    /\ now' = now + HistTickMs
    /\ UNCHANGED <<healthVars, hookVars, limVars, retryVars, tier, quoteVars, histVars, scoreVars, lsVars, idbVars>>

HealthNext ==
    \/ \E score \in HealthScores, throws \in BOOLEAN : UpdateHealthData(score, throws)
    \/ StoreCreated
    \/ HealthTick

(***************************************************************************)
(* The scoring functions of the compass.                                    *)
(***************************************************************************)
NoCalc == [fn |-> "none"]

\* A JavaScript number that a raw signal value can be: the quotient num / den
\* (den > 0), an infinity (den = 0, num = 1 or -1) or NaN.
Num(n, d) == [nan |-> FALSE, num |-> n, den |-> d]
NaN == [nan |-> TRUE, num |-> 0, den |-> 1]
Infinity == Num(1, 0)
NegInfinity == Num(-1, 0)

\* a / b on integers
Divide(a, b) ==
    IF b = 0 THEN (IF a = 0 THEN NaN ELSE IF a > 0 THEN Infinity ELSE NegInfinity)
    ELSE IF b > 0 THEN Num(a, b)
    ELSE Num(-a, -b)

\* x >= c / 100 and x <= c / 100: every comparison with NaN is false
AtLeast(x, c) == ~x.nan /\ 100 * x.num >= c * x.den
AtMost(x, c) == ~x.nan /\ 100 * x.num <= c * x.den

\* The if-chains of scoringRules: the comparison, its literals in hundredths,
\* the value returned at each and the final return.
Thresholds ==
    [priceVs200MA |->
        [cmp |-> ">=", cuts |-> <<1000, 500, 200, 0, -200, -500, -1000>>,
         scores |-> <<100, 85, 70, 55, 45, 30, 15>>, last |-> 0],
     advanceDeclineRatio |->
        [cmp |-> ">=", cuts |-> <<75, 65, 55, 45, 35>>,
         scores |-> <<100, 80, 60, 40, 20>>, last |-> 0],
     percentAbove200MA |->
        [cmp |-> ">=", cuts |-> <<8000, 7000, 6000, 5000, 4000, 3000>>,
         scores |-> <<100, 85, 70, 50, 35, 20>>, last |-> 0],
     newHighsVsLows |->
        [cmp |-> ">=", cuts |-> <<500, 300, 150, 100, 50, 20>>,
         scores |-> <<100, 80, 65, 50, 35, 20>>, last |-> 0],
     vix |->
        [cmp |-> "<=", cuts |-> <<1200, 1500, 1800, 2200, 2800, 3500>>,
         scores |-> <<100, 85, 70, 55, 35, 20>>, last |-> 0],
     putCallRatio |->
        [cmp |-> ">=", cuts |-> <<130, 110, 90, 70, 60, 50>>,
         scores |-> <<90, 75, 60, 50, 40, 25>>, last |-> 10],
     yieldCurve10Y2Y |->
        [cmp |-> ">=", cuts |-> <<100, 50, 25, 0, -25, -50>>,
         scores |-> <<100, 85, 70, 55, 35, 20>>, last |-> 0],
     highYieldSpread |->
        [cmp |-> "<=", cuts |-> <<250, 350, 450, 550, 700, 900>>,
         scores |-> <<100, 80, 60, 45, 30, 15>>, last |-> 0],
     investmentGradeSpread |->
        [cmp |-> "<=", cuts |-> <<80, 100, 130, 160, 200>>,
         scores |-> <<100, 80, 60, 45, 30>>, last |-> 10],
     aaiiBulls |->
        [cmp |-> "<=", cuts |-> <<2000, 3000, 4000, 5000, 6000>>,
         scores |-> <<95, 75, 55, 40, 25>>, last |-> 10],
     aaiiBears |->
        [cmp |-> ">=", cuts |-> <<5000, 4000, 3000, 2500, 2000>>,
         scores |-> <<95, 75, 55, 45, 30>>, last |-> 15],
     fearGreedIndex |->
        [cmp |-> "<=", cuts |-> <<1000, 2500, 4000, 6000, 7500, 9000>>,
         scores |-> <<95, 80, 60, 50, 35, 20>>, last |-> 5],
     globalPMI |->
        [cmp |-> ">=", cuts |-> <<5700, 5400, 5100, 5000, 4800, 4500>>,
         scores |-> <<100, 80, 65, 50, 35, 20>>, last |-> 0],
     vstoxx |->
        [cmp |-> "<=", cuts |-> <<1200, 1500, 1800, 2200, 2800>>,
         scores |-> <<100, 85, 70, 55, 35>>, last |-> 15]]

SteppedRules == DOMAIN Thresholds
RatioRules == {"advanceDeclineRatio", "newHighsVsLows"}
RuleNames == SteppedRules \cup {"vixTermStructure"}

\* One if-chain: the first comparison that holds returns; when none does the
\* final return is reached.
SteppedLastZero(r, x) ==
    LET hits == {i \in 1..Len(r.cuts) :
                    IF r.cmp = ">=" THEN AtLeast(x, r.cuts[i]) ELSE AtMost(x, r.cuts[i])}
    IN  IF hits = {} THEN 0
        ELSE r.scores[CHOOSE i \in hits : \A j \in hits : i <= j]
Stepped(r, x) ==
    LET hits == {i \in 1..Len(r.cuts) :
                    IF r.cmp = ">=" THEN AtLeast(x, r.cuts[i]) ELSE AtMost(x, r.cuts[i])}
    IN  IF hits = {} THEN r.last
        ELSE r.scores[CHOOSE i \in hits : \A j \in hits : i <= j]

\* scoringRules[name](...): x is the argument of the one-argument rules, a
\* and b are the two counts of the ratio rules and isContango is the boolean
\* of vixTermStructure.
ScoringRule(name, x, a, b, isContango) ==
    CASE name = "advanceDeclineRatio" -> Stepped(Thresholds[name], Divide(a, a + b))
      [] name = "newHighsVsLows" ->
            IF b = 0 THEN (IF a > 0 THEN 100 ELSE 50)
            ELSE Stepped(Thresholds[name], Divide(a, b))
      [] name = "vixTermStructure" -> IF isContango THEN 70 ELSE 30
      [] OTHER -> Stepped(Thresholds[name], x)

\* The bounds formulaExplanations documents for each rule's signals.
DocumentedRange ==
    [priceVs200MA |-> 0..100, advanceDeclineRatio |-> 0..100,
     percentAbove200MA |-> 0..100, newHighsVsLows |-> 0..100, vix |-> 0..100,
     putCallRatio |-> 10..90, vixTermStructure |-> {30, 70},
     yieldCurve10Y2Y |-> 0..100, highYieldSpread |-> 0..100,
     investmentGradeSpread |-> 10..100, aaiiBulls |-> 10..95,
     aaiiBears |-> 15..95, fearGreedIndex |-> 5..95, globalPMI |-> 0..100,
     vstoxx |-> 15..100]

\* Raw values tried on a rule: each literal of its chain, the hundredth on
\* either side of it, values far outside the band, the infinities and NaN.
MaxCount == 5
FarOut == 100000
Counts == -1..MaxCount
RawNumbers(name) ==
    LET cuts == Thresholds[name].cuts
    IN  {NaN, Infinity, NegInfinity, Num(FarOut, 100), Num(-FarOut, 100)}
        \cup {Num(cuts[i] + d, 100) : i \in 1..Len(cuts), d \in {-1, 0, 1}}

\* A call of a scoring rule that has not returned yet.
RuleCall(name, x, a, b, isContango) ==
    [fn |-> "rule", rule |-> name, x |-> x, a |-> a, b |-> b, isContango |-> isContango,
     returned |-> FALSE, score |-> 0]
RuleCalls ==
    UNION {{RuleCall(name, x, 0, 0, FALSE) : x \in RawNumbers(name)} :
              name \in SteppedRules \ RatioRules}
    \cup {RuleCall(name, NaN, c[1], c[2], FALSE) : name \in RatioRules, c \in Counts \X Counts}
    \cup {RuleCall("vixTermStructure", NaN, 0, 0, isContango) : isContango \in BOOLEAN}

\* One evaluation of a scoring rule.
ApplyRule ==
    /\ sigCalc # NoCalc /\ ~sigCalc.returned
    /\ sigCalc' = [sigCalc EXCEPT !.returned = TRUE,
                                  !.score = ScoringRule(sigCalc.rule, sigCalc.x, sigCalc.a, sigCalc.b,
                                                       sigCalc.isContango)]
    /\ UNCHANGED <<pillarCalc, compCalc, healthCalc, statusCalc, agreeCalc>>
    /\ UNCHANGED <<now, hookVars, limVars, retryVars, tier, quoteVars, histVars, healthVars, lsVars, idbVars>>

\* The six pillars in the order the object literal of calculatePillarScores
\* inserts them, the rule behind each of their three signals and their
\* weights in hundredths.
PillarNames == <<"direction", "breadth", "volatility", "credit", "sentiment", "global">>
PillarIndexes == 1..Len(PillarNames)
PillarRules ==
    <<<<"priceVs200MA", "priceVs200MA", "priceVs200MA">>,
      <<"advanceDeclineRatio", "percentAbove200MA", "newHighsVsLows">>,
      <<"vix", "putCallRatio", "vixTermStructure">>,
      <<"yieldCurve10Y2Y", "highYieldSpread", "investmentGradeSpread">>,
      <<"aaiiBulls", "aaiiBears", "fearGreedIndex">>,
      <<"priceVs200MA", "vstoxx", "globalPMI">>>>
PillarWeights == <<25, 20, 15, 15, 10, 15>>

\* The values a rule returns.
RuleScores(name) ==
    IF name = "vixTermStructure" THEN {70, 30}
    ELSE LET r == Thresholds[name]
         IN  {r.scores[i] : i \in 1..Len(r.scores)} \cup {r.last}
             \cup (IF name = "newHighsVsLows" THEN {100, 50} ELSE {})

\* signalScores.reduce((a, b) => a + b, 0)
RECURSIVE Reduce(_, _)
Reduce(s, acc) == IF s = <<>> THEN acc ELSE Reduce(Tail(s), acc + Head(s))

\* Math.round(sum / n) for an integer sum and a small n: the quotient is
\* rounded to the nearest integer, a half going up.
MathRoundFloor(sum, n) == sum \div n
MathRound(sum, n) == (2 * sum + n) \div (2 * n)

\* pillar.score = Math.round(signalScores.reduce(...) / signalScores.length)
PillarScore(signalScores) == MathRound(Reduce(signalScores, 0), Len(signalScores))

\* A pillar whose signals array holds the scores `signals` in the order
\* `order`, before its score is calculated (score: 0 in the literal).
PillarCalls ==
    UNION {{[fn |-> "pillar", pillar |-> pillar, signals |-> signals, order |-> order,
             returned |-> FALSE, score |-> 0] :
                signals \in RuleScores(PillarRules[pillar][1])
                            \X RuleScores(PillarRules[pillar][2])
                            \X RuleScores(PillarRules[pillar][3]),
                order \in Permutations(1..3)} : pillar \in PillarIndexes}

\* The forEach body of calculatePillarScores on one pillar.
CalculatePillarScore ==
    /\ pillarCalc # NoCalc /\ ~pillarCalc.returned
    /\ pillarCalc' =
          [pillarCalc EXCEPT !.returned = TRUE,
                             !.score = PillarScore([i \in 1..Len(pillarCalc.signals) |->
                                            pillarCalc.signals[pillarCalc.order[i]]])]
    /\ UNCHANGED <<sigCalc, compCalc, healthCalc, statusCalc, agreeCalc>>
    /\ UNCHANGED <<now, hookVars, limVars, retryVars, tier, quoteVars, histVars, healthVars, lsVars, idbVars>>

\* JavaScript numbers are IEEE-754 doubles. A non-negative double below 2^9
\* whose last mantissa bit is worth at least 2^-56 is held here exactly, as
\* the count of units of 2^-56, in five limbs of 13 bits, lowest first.
Base == 2 ^ 13
LimbIndexes == 1..5
Zero == [i \in LimbIndexes |-> 0]

RECURSIVE Carry(_, _, _)
Carry(a, i, c) ==
    IF i > Len(a) THEN <<>>
    ELSE <<(a[i] + c) % Base>> \o Carry(a, i + 1, (a[i] + c) \div Base)

\* the exact product by a small integer, the exact sum
MulSmall(a, s) == Carry([i \in LimbIndexes |-> a[i] * s], 1, 0)
AddLimbs(a, b) == Carry([i \in LimbIndexes |-> a[i] + b[i]], 1, 0)

\* the exact quotient by a small integer and its remainder, highest limb first
RECURSIVE DivSmall(_, _, _, _)
DivSmall(a, d, i, r) ==
    IF i = 0 THEN [q |-> <<>>, r |-> r]
    ELSE LET cur == r * Base + a[i]
             rest == DivSmall(a, d, i - 1, cur % d)
         IN  [q |-> rest.q \o <<cur \div d>>, r |-> rest.r]

BitLenSmall(x) == CHOOSE n \in 0..13 : x < 2 ^ n /\ (n = 0 \/ 2 ^ (n - 1) <= x)
BitLen(a) ==
    LET used == {i \in LimbIndexes : a[i] # 0}
    IN  IF used = {} THEN 0
        ELSE LET top == CHOOSE i \in used : \A j \in used : j <= i
             IN  13 * (top - 1) + BitLenSmall(a[top])

\* Rounding of the exact value a + rem / den units to the nearest double
\* (53 significant bits), ties to the even mantissa.
RoundNearestEven(a, rem, den) ==
    LET len == BitLen(a)
        p == IF len > 53 THEN 2 ^ (len - 53) ELSE 1
        low == a[1] % p
        keep == a[1] \div p
        twice == 2 * (den * low + rem)
        inc == IF twice > den * p \/ (twice = den * p /\ keep % 2 = 1) THEN 1 ELSE 0
    IN  Carry([a EXCEPT ![1] = (keep + inc) * p], 1, 0)
RoundDouble(a) == RoundNearestEven(a, 0, 1)

\* The double a decimal literal h / 100 denotes (0.15 is not 15/100).
ParseHundredths(h) ==
    LET d == DivSmall([i \in LimbIndexes |-> IF i = 5 THEN 16 * h ELSE 0], 100, 5, 0)
    IN  RoundNearestEven(d.q, d.r, 100)

\* score * weight and x + y as the machine computes them
FMul(score, w) == RoundDouble(MulSmall(w, score))
FAdd(x, y) == RoundDouble(AddLimbs(x, y))

\* Math.round(totalScore / totalWeight) where totalWeight is 1 or 2: the
\* division is then exact and rounding adds a half and takes the floor.
MathRoundQuotient(totalScore, totalWeight) ==
    LET d == totalWeight[5] \div 16
    IN  (totalScore[5] + 8 * d) \div (16 * d)

\* Object.values(pillars).forEach(...) over the pillars in insertion order
RECURSIVE ForEachPillar(_, _, _, _)
ForEachPillar(scores, weights, order, acc) ==
    IF order = <<>> THEN acc
    ELSE LET i == Head(order)
             w == ParseHundredths(weights[i])
         IN  ForEachPillar(scores, weights, Tail(order),
                 [totalScore |-> FAdd(acc.totalScore, FMul(scores[i], w)),
                  totalWeight |-> FAdd(acc.totalWeight, w)])

Totals(scores, weights, order) ==
    ForEachPillar(scores, weights, order, [totalScore |-> Zero, totalWeight |-> Zero])

CompositeScore(scores, weights, order) ==
    LET t == Totals(scores, weights, order)
    IN  MathRoundQuotient(t.totalScore, t.totalWeight)

\* Pillar scores tried: the documented example and, for each pillar, one more
\* value that its three rules can produce.
PillarScoreInputs == <<{70, 55}, {60, 57}, {72, 30}, {55, 17}, {45, 50}, {65, 50}>>

\* Insertion orders tried: the literal's, and the one with the volatility and
\* credit pillars exchanged.
SourceOrder == <<1, 2, 3, 4, 5, 6>>
InsertionOrders == {SourceOrder, <<1, 2, 4, 3, 5, 6>>}

\* Weight objects tried: the literal's, and one with every weight doubled.
WeightConfigs == {PillarWeights, [i \in PillarIndexes |-> 2 * PillarWeights[i]]}

\* A call of calculateCompositeScore that has not returned yet.
CompositeCalls ==
    {[fn |-> "composite", scores |-> scores, weights |-> weights, order |-> order,
      outcome |-> "pending", totalWeight |-> Zero, composite |-> 0] :
        scores \in PillarScoreInputs[1] \X PillarScoreInputs[2] \X PillarScoreInputs[3]
                   \X PillarScoreInputs[4] \X PillarScoreInputs[5] \X PillarScoreInputs[6],
        weights \in WeightConfigs, order \in InsertionOrders}

\* calculateCompositeScore(pillars): it has no throw statement and no caller
\* checks the weights before it, so it returns for every input.
CalculateCompositeScore ==
    /\ compCalc # NoCalc /\ compCalc.outcome = "pending"
    /\ compCalc' =
          [compCalc EXCEPT
              !.outcome = "returned",
              !.totalWeight = Totals(compCalc.scores, compCalc.weights, compCalc.order).totalWeight,
              !.composite = CompositeScore(compCalc.scores, compCalc.weights, compCalc.order)]
    /\ UNCHANGED <<sigCalc, pillarCalc, healthCalc, statusCalc, agreeCalc>>
    /\ UNCHANGED <<now, hookVars, limVars, retryVars, tier, quoteVars, histVars, healthVars, lsVars, idbVars>>

(***************************************************************************)
(* healthScore.ts: calculateHealthScore; the status tables; pillar          *)
(* agreement.                                                               *)
(***************************************************************************)
\* The tickers calculateHealthScoreInternal looks up.
HealthTickers == {"SPY", "QQQ", "IWM", "VIX", "^VIX"}

\* An instrument of the input record (changePercent and currentPrice in
\* hundredths), or the absence of one: instruments[t] is undefined.
Absent == [present |-> FALSE, changePercent |-> 0, currentPrice |-> 0]
Instrument(change, price) == [present |-> TRUE, changePercent |-> change, currentPrice |-> price]

\* WEIGHTS in hundredths; RANGES in two-hundredths, the unit of the mean of
\* two changes given in hundredths.
WEIGHTS == [marketDirection |-> 40, riskAppetite |-> 30, volatility |-> 30]
RANGES ==
    [marketChange |-> [min |-> -500, max |-> 500],
     relativeStrength |-> [min |-> -300, max |-> 300],
     vix |-> [min |-> 2000, max |-> 7000]]

RECURSIVE Gcd(_, _)
Gcd(a, b) == IF b = 0 THEN a ELSE Gcd(b, a % b)

\* the number n / d (n >= 0, d > 0) in lowest terms
Fraction(n, d) == Num(n \div Gcd(n, d), d \div Gcd(n, d))

MathMin(a, b) == IF a < b THEN a ELSE b
MathMax(a, b) == IF a > b THEN a ELSE b

\* normalize(value, range, invert): the arithmetic is exact here; on the
\* values tried the doubles of the code round to the same integers.
Normalize(value, range, invert) ==
    LET clamped == MathMax(range.min, MathMin(range.max, value))
        normalized == (clamped - range.min) * 100
        full == (range.max - range.min) * 100
    IN  Fraction(IF invert THEN full - normalized ELSE normalized, range.max - range.min)

\* scoreToStatus(score)
ScoreToStatusReadme(score) ==
    IF score >= 80 THEN "very-healthy"
    ELSE IF score >= 60 THEN "healthy"
    ELSE IF score >= 40 THEN "neutral"
    ELSE IF score >= 25 THEN "unhealthy"
    ELSE "very-unhealthy"
ScoreToStatus(score) ==
    IF score >= 75 THEN "very-healthy"
    ELSE IF score >= 60 THEN "healthy"
    ELSE IF score >= 40 THEN "neutral"
    ELSE IF score >= 25 THEN "unhealthy"
    ELSE "very-unhealthy"

\* MarketCompassV6: getStatus(score)
GetStatus(score) ==
    IF score >= 65 THEN "healthy" ELSE IF score >= 45 THEN "neutral" ELSE "stressed"

\* |x - 50| > |y - 50| for two fractions
Deviation(x) ==
    IF x.num >= 50 * x.den THEN Num(x.num - 50 * x.den, x.den) ELSE Num(50 * x.den - x.num, x.den)
DeviatesMore(x, y) == Deviation(x).num * y.den > Deviation(y).num * x.den

\* getDescription(score, components): the template and the driver named in it
GetDescription(score, marketScore, riskScore, vixScore) ==
    LET first == IF DeviatesMore(riskScore, marketScore)
                 THEN [name |-> "risk-on sentiment", score |-> riskScore]
                 ELSE [name |-> "rising markets", score |-> marketScore]
        strongest == IF DeviatesMore(vixScore, first.score) THEN "low volatility" ELSE first.name
    IN  IF score >= 75 THEN <<"Strong conditions led by", strongest>>
        ELSE IF score >= 60 THEN <<"Healthy conditions with", strongest>>
        ELSE IF score >= 40 THEN <<"Mixed signals across markets", "">>
        ELSE IF score >= 25 THEN <<"Elevated stress from declining", strongest>>
        ELSE <<"High volatility with broad weakness", "">>

NoHealthResult ==
    [score |-> 0, status |-> "none", description |-> <<"", "">>,
     marketDirection |-> 0, riskAppetite |-> 0, volatility |-> 0]

\* calculateHealthScoreInternal(instruments)
RequiresAll(spy, qqq, iwm, vix) == ~spy.present /\ ~qqq.present /\ ~iwm.present /\ ~vix.present
Missing(spy, qqq, iwm, vix) == ~spy.present \/ ~qqq.present \/ ~iwm.present \/ ~vix.present
CalculateHealthScoreInternal(instruments) ==
    LET spy == instruments["SPY"]
        qqq == instruments["QQQ"]
        iwm == instruments["IWM"]
        vix == IF instruments["VIX"].present THEN instruments["VIX"] ELSE instruments["^VIX"]
    IN  IF Missing(spy, qqq, iwm, vix)
        THEN [score |-> 50, status |-> "neutral",
              description |-> <<"Insufficient data available", "">>,
              marketDirection |-> 50, riskAppetite |-> 50, volatility |-> 50]
        ELSE LET marketScore == Normalize(spy.changePercent + qqq.changePercent,
                                          RANGES.marketChange, FALSE)
                 riskScore == Normalize(2 * (iwm.changePercent - spy.changePercent),
                                        RANGES.relativeStrength, FALSE)
                 vixScore == Normalize(2 * vix.currentPrice, RANGES.vix, TRUE)
                 den == marketScore.den * riskScore.den * vixScore.den
                 score == MathRound(
                     WEIGHTS.marketDirection * marketScore.num * riskScore.den * vixScore.den
                       + WEIGHTS.riskAppetite * riskScore.num * marketScore.den * vixScore.den
                       + WEIGHTS.volatility * vixScore.num * marketScore.den * riskScore.den,
                     100 * den)
             IN  [score |-> score, status |-> ScoreToStatus(score),
                  description |-> GetDescription(score, marketScore, riskScore, vixScore),
                  marketDirection |-> MathRound(marketScore.num, marketScore.den),
                  riskAppetite |-> MathRound(riskScore.num, riskScore.den),
                  volatility |-> MathRound(vixScore.num, vixScore.den)]

\* Inputs tried: every subset of the five tickers present, each instrument
\* with values inside and outside its range.
ChangePercents == {-300, 50, 100}
VixPrices == {900, 1500, 4000}
InstrumentsOf(t) ==
    IF t \in {"VIX", "^VIX"} THEN {Absent} \cup {Instrument(0, p) : p \in VixPrices}
    ELSE {Absent} \cup {Instrument(c, 50000) : c \in ChangePercents}
HealthCalls ==
    {[fn |-> "calculateHealthScore", instruments |-> i, returned |-> FALSE,
      result |-> NoHealthResult] :
        i \in {f \in [HealthTickers -> UNION {InstrumentsOf(t) : t \in HealthTickers}] :
                  \A t \in HealthTickers : f[t] \in InstrumentsOf(t)}}

\* calculateHealthScore(instruments): both branches return
\* calculateHealthScoreInternal(instruments).
CalculateHealthScore ==
    /\ healthCalc # NoCalc /\ ~healthCalc.returned
    /\ healthCalc' = [healthCalc EXCEPT !.returned = TRUE,
                                        !.result = CalculateHealthScoreInternal(healthCalc.instruments)]
    /\ UNCHANGED <<sigCalc, pillarCalc, compCalc, statusCalc, agreeCalc>>
    /\ UNCHANGED <<now, hookVars, limVars, retryVars, tier, quoteVars, histVars, healthVars, lsVars, idbVars>>

\* One classification of a score by one of the two status functions.
StatusCalls ==
    {[fn |-> f, score |-> s, returned |-> FALSE, status |-> "none"] :
        f \in {"scoreToStatus", "getStatus"}, s \in 0..100}
Classify ==
    /\ statusCalc # NoCalc /\ ~statusCalc.returned
    /\ statusCalc' = [statusCalc EXCEPT
                        !.returned = TRUE,
                        !.status = IF statusCalc.fn = "getStatus" THEN GetStatus(statusCalc.score)
                                   ELSE ScoreToStatus(statusCalc.score)]
    /\ UNCHANGED <<sigCalc, pillarCalc, compCalc, healthCalc, agreeCalc>>
    /\ UNCHANGED <<now, hookVars, limVars, retryVars, tier, quoteVars, histVars, healthVars, lsVars, idbVars>>

\* pillarAgreement.ts
IsBullish(score) == score >= 60
IsNeutral(score) == score >= 45 /\ score < 60
IsBearishBelow50(score) == score < 50
IsBearish(score) == score < 45

\* entries.filter(...).map(([k, p]) => [k, p.score])
Entries(scores) == [i \in PillarIndexes |-> <<PillarNames[i], scores[i]>>]
CategorizePillars(scores) ==
    [bullish |-> SelectSeq(Entries(scores), LAMBDA e : IsBullish(e[2])),
     neutral |-> SelectSeq(Entries(scores), LAMBDA e : IsNeutral(e[2])),
     bearish |-> SelectSeq(Entries(scores), LAMBDA e : IsBearish(e[2]))]

\* getInterpretation(categories): the opening words of the text returned
GetInterpretation(categories) ==
    IF Len(categories.bullish) >= 5 THEN "Strong bullish"
    ELSE IF Len(categories.bullish) >= 4 THEN "Leaning positive"
    ELSE IF Len(categories.bearish) >= 5 THEN "Strong defensive"
    ELSE IF Len(categories.bearish) >= 4 THEN "Leaning negative"
    ELSE "Mixed signals"

AgreementScores == {44, 45, 59, 60}
AgreementCalls ==
    {[fn |-> "pillarAgreement", scores |-> s, returned |-> FALSE,
      categories |-> [bullish |-> <<>>, neutral |-> <<>>, bearish |-> <<>>],
      interpretation |-> "none"] : s \in [PillarIndexes -> AgreementScores]}

\* categorizePillars(pillars) followed by getInterpretation of its result
Categorize ==
    /\ agreeCalc # NoCalc /\ ~agreeCalc.returned
    /\ agreeCalc' = [agreeCalc EXCEPT
                        !.returned = TRUE,
                        !.categories = CategorizePillars(agreeCalc.scores),
                        !.interpretation = GetInterpretation(CategorizePillars(agreeCalc.scores))]
    /\ UNCHANGED <<sigCalc, pillarCalc, compCalc, healthCalc, statusCalc>>
    /\ UNCHANGED <<now, hookVars, limVars, retryVars, tier, quoteVars, histVars, healthVars, lsVars, idbVars>>

ScoreNext ==
    \/ ApplyRule
    \/ CalculatePillarScore
    \/ CalculateCompositeScore
    \/ CalculateHealthScore
    \/ Classify
    \/ Categorize

ScoreIdle ==
    /\ sigCalc = NoCalc
    /\ pillarCalc = NoCalc
    /\ compCalc = NoCalc
    /\ healthCalc = NoCalc
    /\ statusCalc = NoCalc
    /\ agreeCalc = NoCalc

\* One call with its arguments drawn.
ScoreInit ==
    \/ sigCalc \in RuleCalls /\ pillarCalc = NoCalc /\ compCalc = NoCalc /\ healthCalc = NoCalc /\ statusCalc = NoCalc /\ agreeCalc = NoCalc
    \/ sigCalc = NoCalc /\ pillarCalc \in PillarCalls /\ compCalc = NoCalc /\ healthCalc = NoCalc /\ statusCalc = NoCalc /\ agreeCalc = NoCalc
    \/ sigCalc = NoCalc /\ pillarCalc = NoCalc /\ compCalc \in CompositeCalls /\ healthCalc = NoCalc /\ statusCalc = NoCalc /\ agreeCalc = NoCalc
    \/ sigCalc = NoCalc /\ pillarCalc = NoCalc /\ compCalc = NoCalc /\ healthCalc \in HealthCalls /\ statusCalc = NoCalc /\ agreeCalc = NoCalc
    \/ sigCalc = NoCalc /\ pillarCalc = NoCalc /\ compCalc = NoCalc /\ healthCalc = NoCalc /\ statusCalc \in StatusCalls /\ agreeCalc = NoCalc
    \/ sigCalc = NoCalc /\ pillarCalc = NoCalc /\ compCalc = NoCalc /\ healthCalc = NoCalc /\ statusCalc = NoCalc /\ agreeCalc \in AgreementCalls

(***************************************************************************)
(* Specifications                                                           *)
(***************************************************************************)
Idle == HookInit /\ LimInit /\ RetryIdle /\ QuoteInit /\ LsInit /\ HealthInit /\ ScoreIdle
HookSpecInit == ClockInit /\ Idle /\ maxCallsPerMinute = 1 /\ tier = "localStorage" /\ IdbInit /\ HistIdle
LimSpecInit == ClockInit /\ Idle /\ tier = "localStorage" /\ IdbInit /\ HistIdle
RetrySpecInit == ClockInit /\ Idle /\ maxCallsPerMinute = 1 /\ tier = "localStorage" /\ IdbInit /\ HistIdle
CacheSpecInit ==
    /\ ClockInit /\ Idle /\ maxCallsPerMinute = 1 /\ HistIdle
    /\ \/ tier \in {"localStorage", "fetchQuote"} /\ IdbInit
       \/ tier = "indexedDB" /\ IdbInitWith({"open", "failed"})
HistSpecInit ==
    /\ now = HistStart /\ Idle /\ maxCallsPerMinute = 1 /\ tier = "localStorage" /\ IdbInit /\ HistInit
CorruptSpecInit ==
    /\ now = HistStart /\ Idle /\ maxCallsPerMinute = 1 /\ tier = "localStorage" /\ IdbInit /\ CorruptInit
HealthSpecInit == ClockInit /\ Idle /\ maxCallsPerMinute = 1 /\ tier = "localStorage" /\ IdbInit /\ HistIdle
QuoteSpecInit == ClockInit /\ Idle /\ maxCallsPerMinute = 1 /\ tier = "fetchQuote" /\ IdbInit /\ HistIdle
ScoreSpecInit ==
    /\ ClockInit /\ HookInit /\ LimInit /\ RetryIdle /\ QuoteInit /\ LsInit /\ HealthInit
    /\ maxCallsPerMinute = 1 /\ tier = "localStorage" /\ IdbInit /\ HistIdle
    /\ ScoreInit

HookSpec == HookSpecInit /\ [][HookNext]_vars
LimSpec == LimSpecInit /\ [][LimNext]_vars
RetrySpec == RetrySpecInit /\ [][RetryNext]_vars
CacheSpec == CacheSpecInit /\ [][CacheNext]_vars
HistSpec == HistSpecInit /\ [][HistNext]_vars
CorruptSpec == CorruptSpecInit /\ [][CorruptNext]_vars
HealthSpec == HealthSpecInit /\ [][HealthNext]_vars
ScoreSpec == ScoreSpecInit /\ [][ScoreNext]_vars
QuoteSpec == QuoteSpecInit /\ [][QuoteNext]_vars

\* Timers fire, promises settle and continuations run: the event loop starves
\* none of them.
LimFairSpec ==
    /\ LimSpec
    /\ WF_vars(LimTick)
    /\ \A d \in Tasks : WF_vars(Wake(d)) /\ WF_vars(LoopStep(d))
    /\ \A d \in Tasks : WF_vars(\E kind \in {"value", "error"} : FnSettles(d, kind))

(***************************************************************************)
(* Claims                                                                   *)
(***************************************************************************)

\* C1: the committed snapshot always comes from the most recently started
\* cycle among those that have completed; a superseded cycle that finishes
\* late does not overwrite it.
C1_NewestCompletedCycleWins ==
    completed # {} => data.cycle = Max(completed)

\* C2: no 60-second interval of wall-clock time contains more than
\* maxCallsPerMinute calls of submitted functions.
CallsInWindowFrom(i) ==
    {j \in 1..Len(execLog) :
        execLog[j].at >= execLog[i].at /\ execLog[j].at < execLog[i].at + WindowMs}
C2_AtMostBudgetPerWindow ==
    \A i \in 1..Len(execLog) : Cardinality(CallsInWindowFrom(i)) <= maxCallsPerMinute

\* C3: every task submitted is eventually executed and its promise settles,
\* also when more tasks are submitted than the budget of one window allows.
Executed(t) == \E i \in 1..Len(execLog) : execLog[i].task = t
C3_AllTasksComplete ==
    \A t \in Tasks :
        (submitted >= t) ~> (Executed(t) /\ promise[t].state # "pending")
C3_Witness ==
    /\ submitted > maxCallsPerMinute
    /\ \A t \in 1..submitted : Executed(t) /\ promise[t].state # "pending"
    /\ \E i \in 1..Len(execLog) : execLog[i].slept

\* C4: submitted functions are called in the order of the execute() calls,
\* and at most one task is in flight at any time, also when execute() is
\* called while a drain is in progress.
InFlight == {d \in Tasks : drain[d].pc \in {"sleep", "fn"}}
C4_FifoOneInFlight ==
    /\ \A i \in 1..Len(execLog) : execLog[i].task = i
    /\ Cardinality(InFlight) <= 1
C4_Witness ==
    /\ Len(execLog) = MaxTasks
    /\ drain[1].pc = "fn"
    /\ drain[1].cur = MaxTasks

\* C5: the promise of execute(fn) resolves with fn's value or rejects with
\* fn's own error, and a task whose fn rejected does not keep the tasks
\* queued behind it from being executed.
C5_OutcomePropagates ==
    \A t \in Tasks :
        /\ promise[t].state = "pending" <=> fnOutcome[t].kind = "none"
        /\ promise[t].state = "resolved" <=> fnOutcome[t].kind = "value"
        /\ promise[t].state = "rejected" <=> fnOutcome[t].kind = "error"
        /\ promise[t].payload = fnOutcome[t].payload
C5_ErrorsPropagateDrainGoesOn ==
    /\ []C5_OutcomePropagates
    /\ \A t \in Tasks :
          (fnOutcome[t].kind = "error" /\ submitted > t) ~> Executed(t + 1)
C5_Witness ==
    /\ promise[1].state = "rejected"
    /\ promise[2] = [state |-> "resolved", payload |-> 2]
    /\ drain[1].pc = "loop"
    /\ drain[1].cur = 2

Ended == retryPc \in {"returned", "thrown"}
AllAttemptsWere(o) == \A j \in 1..Len(attemptLog) : attemptLog[j].outcome = o

\* C6: an attempt that receives a non-success status other than 429 ends the
\* call at once with a raise: no wait and no further attempt follows it.
C6_OtherStatusRaisesAtOnce ==
    \A j \in 1..Len(attemptLog) :
        attemptLog[j].outcome = "http" =>
            /\ j = Len(attemptLog)
            /\ retryPc = "thrown"
            /\ attemptLog[j].delay = 0

\* C7: one call makes at most maxRetries network attempts, whatever the
\* responses and failures are.
C7_AtMostKAttempts == Len(attemptLog) <= maxRetries
C7_Witness ==
    /\ Ended
    /\ maxRetries = DefaultMaxRetries
    /\ Len(attemptLog) = DefaultMaxRetries

\* C8: after a 429 or a network-level failure on zero-based attempt i the
\* call waits baseDelay * 2^i before the next attempt, and every 429 uses up
\* an attempt: K 429 responses in a row end the call in failure after
\* exactly K attempts.
C8_BackoffAnd429Slot ==
    /\ \A j \in 1..(Len(attemptLog) - 1) :
          attemptLog[j].outcome \in {"429", "network"} =>
              /\ attemptLog[j].delay = BaseDelay * 2^(j - 1)
              /\ attemptLog[j + 1].start - attemptLog[j].end >= BaseDelay * 2^(j - 1)
    /\ (Ended /\ AllAttemptsWere("429")) =>
          /\ Len(attemptLog) = maxRetries
          /\ retryResult.kind = "error"
C8_Witness ==
    /\ Ended
    /\ maxRetries = DefaultMaxRetries
    /\ AllAttemptsWere("429")

\* C9: when every attempt fails at network level, exactly maxRetries attempts
\* are made and the error raised is the one of the last attempt.
C9_LastErrorPropagates ==
    (Ended /\ AllAttemptsWere("network")) =>
        /\ Len(attemptLog) = maxRetries
        /\ retryResult = [kind |-> "error", cause |-> "network", attempt |-> maxRetries - 1]
C9_Witness ==
    /\ Ended
    /\ maxRetries = DefaultMaxRetries
    /\ AllAttemptsWere("network")

\* C10: in each durable tier, a get of a key after a set(key, v, ttl), with no
\* other write or remove of the key in between, returns v while less than ttl
\* has elapsed since the set, and a miss once more than ttl has elapsed.
GetAfterSet(got, last, at) ==
    last.data # Null /\ ~got.fault =>
        /\ (at - last.at < last.ttl) => got.result = last.data
        /\ (got.called - last.at > last.ttl) => got.result = Null
C10_Ls == lsGot # NoGet => GetAfterSet(lsGot, lsLastSet[lsGot.key], now)
C10_Idb == idbGot # NoIdbGet => GetAfterSet(idbGot, idbLastSet[idbGot.key], now)
C10_GetAfterSetHonoursTtl == C10_Ls /\ C10_Idb

\* C11: with the static source disabled, a quote of the upstream API that
\* fetchQuote returns from the memory tier or from the localStorage tier was
\* fetched at most CACHE_TTL ago.
FromCache == quoteGot.from \in {"memory", "localStorage"}
C11_ServedWithinTtlOfFetch ==
    (FromCache /\ ~useStaticData /\ quoteGot.result.src = "api") =>
        now - quoteGot.result.fetchedAt <= CACHE_TTL

\* C12: in each tier an entry is expired exactly when now - timestamp > ttl:
\* a lookup that finds an entry misses when the entry's age exceeds its ttl and
\* serves it otherwise, also at an age equal to the ttl.
C12_Memory ==
    (FromCache /\ quoteGot.memAge >= 0) =>
        (quoteGot.from = "memory" <=> ~(quoteGot.memAge > CACHE_TTL))
C12_Ls == (lsGot.age >= 0 /\ ~lsGot.fault) => (lsGot.result = Null <=> lsGot.age > lsGot.ttl)
C12_Idb == (idbGot.age >= 0 /\ ~idbGot.fault) => (idbGot.result = Null <=> idbGot.age > idbGot.ttl)
C12_ExpiredExactlyPastTtl == C12_Memory /\ C12_Ls /\ C12_Idb

\* C13: get, set, remove and clear of LocalStorageCache return normally and
\* those of IndexedDBCache resolve, whatever the storage does; a get that met a
\* storage failure returns a miss.
C13_Ls == lsCall.outcome # "threw" /\ (lsGot.fault => lsGot.result = Null)
C13_Idb == idbCall.outcome # "rejected" /\ (idbGot.fault => idbGot.result = Null)
C13_NeverThrowsOrRejects == C13_Ls /\ C13_Idb

\* C14: a get that finds an item JSON.parse throws on returns a miss; and
\* after a set that stored a value over such an item, with no other write or
\* remove of the key since, a get made before the entry of that set expires
\* returns the value of that set.
C14_CorruptIsMissSetHeals ==
    /\ lsGot.corrupt => lsGot.result = Null
    /\ (/\ lsGot # NoGet /\ ~lsGot.fault /\ lsLastSet[lsGot.key].healed
        /\ lsGot.called - lsLastSet[lsGot.key].at
              <= TtlOrDefault(lsLastSet[lsGot.key].ttl, LsMaxAge)) =>
          lsGot.result = lsLastSet[lsGot.key].data
C14_Witness ==
    /\ lsGot # NoGet
    /\ lsLastSet[lsGot.key].healed
    /\ lsGot.result = "b"
    /\ lsGot.called > lsLastSet[lsGot.key].at

\* C15 as stated: when a set overflows the quota, the entries its cleanup
\* removes are removed in order of increasing timestamp, no entry that stays is
\* older than one that was removed, and the new value is stored.
Timestamps(items) ==
    [i \in 1..Len(SelectSeq(items, Parses)) |-> Parse(SelectSeq(items, Parses)[i]).timestamp]
Remaining == {k \in Keys \ {lsCall.key} : lsStore[k] # NoItem /\ Parses(lsStore[k])}
C15_OldestFirstThenStored ==
    lsCall.overflow =>
        /\ \A i, j \in 1..Len(Timestamps(lsCall.evicted)) :
              i < j => Timestamps(lsCall.evicted)[i] <= Timestamps(lsCall.evicted)[j]
        /\ \A k \in Remaining, i \in 1..Len(Timestamps(lsCall.evicted)) :
              Parse(lsStore[k]).timestamp >= Timestamps(lsCall.evicted)[i]
        /\ lsStore[lsCall.key] # NoItem

\* C15 amended: when a set overflows the quota, every entry of the cache is
\* removed, whatever its timestamp, and the new value is stored afterwards
\* exactly when the items of other code leave room for it.
C15_AllEvictedStoredIfRoom ==
    lsCall.overflow =>
        /\ \A k \in Keys \ {lsCall.key} : lsStore[k] = NoItem
        /\ lsStore[lsCall.key] # NoItem <=> lsOther + lsCall.len <= LsQuota
        /\ lsStore[lsCall.key] # NoItem =>
              /\ Parses(lsStore[lsCall.key])
              /\ Parse(lsStore[lsCall.key]).timestamp = now
C15_Witness ==
    /\ lsCall.overflow
    /\ Len(lsCall.evicted) > 1
    /\ Parses(lsCall.evicted[1]) /\ Parses(lsCall.evicted[2])
    /\ Parse(lsCall.evicted[1]).timestamp > Parse(lsCall.evicted[2]).timestamp
    /\ lsStore[lsCall.key] # NoItem

\* C16: the stored history has at most one entry per date; after a save that
\* was written, the entry of that save's date carries the composite and the
\* pillar scores of that save; and no step changes the entry of another date
\* (it stays as it was or is dropped), so the entry of a date is the one the
\* most recent written save of that date made.
NoDuplicateDates(list) == \A i, j \in 1..Len(list) : list[i].date = list[j].date => i = j
EntriesOf(list, d) == {list[i] : i \in {j \in 1..Len(list) : list[j].date = d}}
C16_LastSaveStored ==
    /\ NoDuplicateDates(HParse(history))
    /\ lastSave.outcome = "saved" =>
          EntriesOf(HParse(history), lastSave.date) \subseteq
              {[date |-> lastSave.date, composite |-> lastSave.composite, pillars |-> lastSave.pillars]}
C16_OthersKept ==
    \/ history' = history
    \/ LET before == {HParse(history)[i] : i \in 1..Len(HParse(history))}
       IN  \A i \in 1..Len(HParse(history')) :
               \/ lastSave'.outcome = "saved" /\ HParse(history')[i].date = lastSave'.date
               \/ HParse(history')[i] \in before
C17_AtMost60OldestDropped ==
    /\ Len(HParse(history)) <= MAX_HISTORY_DAYS
    /\ lastSave.outcome = "saved" => Cardinality(lastSave.dropped) <= 1
    /\ \A d \in lastSave.dropped, e \in Dates(HParse(history)) : d < e
C17_Witness ==
    /\ lastSave.outcome = "saved"
    /\ lastSave.dropped # {}
    /\ ~lastSave.had
    /\ Len(HParse(history)) = MAX_HISTORY_DAYS

\* C18: after a save that was written the stored history is ordered by date,
\* newest first, also when the date saved is older than a stored one.
C18_SortedNewestFirst ==
    lastSave.outcome = "saved" => IsDescending(HParse(history))
C18_Witness ==
    /\ lastSave.outcome = "saved"
    /\ ~lastSave.had
    /\ \E d \in Dates(HParse(history)) : d > lastSave.date
    /\ \E d \in Dates(HParse(history)) : d < lastSave.date

\* C19: getPercentile30d returns null exactly while the stored history holds
\* fewer than 30 dates, whatever the score queried.
C19_NullBelow30Days ==
    lastQuery # NoQuery =>
        (lastQuery.result = NullPercentile <=>
            Cardinality(Dates(HParse(history))) < PercentileDays)
C19_Witness ==
    /\ lastQuery # NoQuery
    /\ lastQuery.result # NullPercentile
    /\ Cardinality(Dates(HParse(history))) = PercentileDays

\* C20: with at least 30 stored entries getPercentile30d(s) is the integer
\* nearest to 100 * c / 30, c being the number of entries strictly below s
\* among the entries of the 30 newest dates.
Newest30(list) ==
    {i \in 1..Len(list) :
        Cardinality({j \in 1..Len(list) : list[j].date > list[i].date}) < PercentileDays}
BelowAmongNewest30(list, s) == Cardinality({i \in Newest30(list) : list[i].composite < s})
C20_PercentileOfNewest30 ==
    (lastQuery # NoQuery /\ Len(HParse(history)) >= PercentileDays) =>
        /\ lastQuery.result \in 0..100
        /\ PercentileDays * (2 * lastQuery.result - 1)
              <= 2 * 100 * BelowAmongNewest30(HParse(history), lastQuery.score)
        /\ 2 * 100 * BelowAmongNewest30(HParse(history), lastQuery.score)
              < PercentileDays * (2 * lastQuery.result + 1)
C20_Witness ==
    /\ lastQuery # NoQuery
    /\ lastQuery.result \in 1..99
    /\ \E i \in Newest30(HParse(history)) : HParse(history)[i].composite = lastQuery.score
    /\ \E i \in (1..Len(HParse(history))) \ Newest30(HParse(history)) :
          HParse(history)[i].composite < lastQuery.score

\* C21: for a history of at least 30 entries, getPercentile30d is an integer
\* of 0..100 for every score, and a higher score never gets a lower
\* percentile.
QueryScores == {0, 40, 41, 60, 61, 100}
C21_InRangeNonDecreasing ==
    Len(HParse(history)) >= PercentileDays =>
        /\ lastQuery # NoQuery =>
              lastQuery.result = GetPercentile30dValue(HParse(history), lastQuery.score)
        /\ \A s1, s2 \in QueryScores :
              /\ GetPercentile30dValue(HParse(history), s1) \in 0..100
              /\ s1 <= s2 => GetPercentile30dValue(HParse(history), s1)
                               <= GetPercentile30dValue(HParse(history), s2)
C21_Witness ==
    /\ lastQuery # NoQuery
    /\ Len(HParse(history)) >= PercentileDays
    /\ \E s1, s2 \in QueryScores :
          /\ s1 < lastQuery.score /\ lastQuery.score < s2
          /\ GetPercentile30dValue(HParse(history), s1) < lastQuery.result
          /\ lastQuery.result < GetPercentile30dValue(HParse(history), s2)

\* C22: saveScore returns normally whichever of its writes throw: the first
\* write throwing leads to the reduced write (at most 30 entries stored), and
\* both throwing leaves the storage as it was.
C22_NeverRaises ==
    lastSave # NoSave =>
        /\ lastSave.outcome \in WriteOutcomes
        /\ ~lastSave.primaryThrew => lastSave.outcome = "saved"
        /\ (lastSave.primaryThrew /\ ~lastSave.reducedThrew) =>
              lastSave.outcome = "reduced" /\ Len(HParse(history)) <= ReducedDays
        /\ (lastSave.primaryThrew /\ lastSave.reducedThrew) => lastSave.outcome = "skipped"
C22_Witness ==
    /\ lastSave.primaryThrew /\ lastSave.reducedThrew
    /\ lastSave.outcome = "skipped"
    /\ Len(HParse(history)) > ReducedDays

\* C23: a written save is keyed by the same date as the written save before
\* it exactly when both were made on the same calendar day of the exchange.
C23_SameEntry ==
    (lastSave'.outcome = "saved" /\ lastWritten # NoWritten) =>
        (ExchangeDate(lastWritten.at) = ExchangeDate(now) <=> lastWritten.date = lastSave'.date)
C23_KeyedByExchangeDate == [][C23_SameEntry]_vars

\* C24: whichever providers failed, the step that ends a cycle commits that
\* cycle's snapshot, holding the own values of each provider that succeeded
\* and the fallback values of each that failed, clears the error and ends
\* loading.
C24_Commit ==
    \A c \in completed' \ completed :
        /\ data'.cycle = c
        /\ \A p \in Providers :
              data'.values[p] = IF p \in data'.fallback THEN "fallback" ELSE "own"
        /\ error' = "null"
        /\ isLoading' = FALSE
C26_IncompleteAboveThreshold ==
    (data # NoData /\ SignalsPerProvider * Cardinality(data.fallback) > WarningThreshold) =>
        ~DataStatus.isComplete

\* C25: once the latest update was made today and a score was saved
\* yesterday, previousScore is the score saved yesterday.
C25_PreviousIsYesterdays ==
    (/\ updatedOn = UtcDate(now)
     /\ UtcDate(now) - 1 \in HealthDays
     /\ savedByDay[UtcDate(now) - 1] # NullScore) =>
        previousScore = savedByDay[UtcDate(now) - 1]

\* C27: each pillar's score is the mean of its three signal scores rounded to
\* the nearest integer, a half going up, whatever the order in which the
\* signals array holds them.
C27_RoundHalfUpOfMean ==
    (pillarCalc # NoCalc /\ pillarCalc.returned) =>
        LET s == pillarCalc.signals
            sum == s[1] + s[2] + s[3]
        IN  /\ 6 * pillarCalc.score <= 2 * sum + 3
            /\ 2 * sum + 3 < 6 * pillarCalc.score + 6

C27_Witness ==
    /\ pillarCalc # NoCalc /\ pillarCalc.returned
    /\ PillarNames[pillarCalc.pillar] = "volatility"
    /\ pillarCalc.signals = <<85, 60, 70>>
    /\ pillarCalc.order = <<3, 1, 2>>
    /\ pillarCalc.score = 72

\* C28: with the shipped weights the composite is the weighted sum of the
\* pillar scores rounded to the nearest integer (a half going up), and it is
\* the same for every insertion order of the pillars.
WeightedSum(scores) ==
    Reduce([i \in PillarIndexes |-> scores[i] * PillarWeights[i]], 0)

C28_RoundedWeightedSumAnyOrder ==
    (compCalc # NoCalc /\ compCalc.outcome = "returned" /\ compCalc.weights = PillarWeights) =>
        /\ compCalc.composite = (WeightedSum(compCalc.scores) + 50) \div 100
        /\ \A order \in InsertionOrders :
              compCalc.composite = CompositeScore(compCalc.scores, compCalc.weights, order)

\* C29: a weight configuration that does not sum to 1.0 is rejected with a
\* fatal error and yields no composite score.
C29_BadWeightsAreFatal ==
    (compCalc # NoCalc /\ compCalc.outcome # "pending"
        /\ Reduce(compCalc.weights, 0) # 100) =>
        compCalc.outcome = "fatal"

\* C30: whatever the raw input (a value far outside the band, an infinity,
\* NaN, a zero denominator), every scoring rule returns a number inside the
\* documented closed range of its signal.
C30_ScoreInDocumentedRange ==
    (sigCalc # NoCalc /\ sigCalc.returned) =>
        sigCalc.score \in DocumentedRange[sigCalc.rule]

C30_Witness ==
    /\ sigCalc # NoCalc /\ sigCalc.returned
    /\ sigCalc.rule = "advanceDeclineRatio"
    /\ sigCalc.a = 0 /\ sigCalc.b = 0
    /\ sigCalc.score = 0

\* C31: whenever SPY, QQQ, IWM or the volatility index (VIX, or ^VIX in its
\* place) is absent from the input, calculateHealthScore returns score 50,
\* status neutral and the three components 50.
C31_NeutralWhenAnyMissing ==
    (healthCalc # NoCalc /\ healthCalc.returned) =>
        LET i == healthCalc.instruments
            r == healthCalc.result
        IN  (\/ \E t \in {"SPY", "QQQ", "IWM"} : ~i[t].present
             \/ (~i["VIX"].present /\ ~i["^VIX"].present)) =>
                /\ r.score = 50 /\ r.status = "neutral"
                /\ r.marketDirection = 50 /\ r.riskAppetite = 50 /\ r.volatility = 50

C31_Witness ==
    /\ healthCalc # NoCalc /\ healthCalc.returned
    /\ ~healthCalc.instruments["QQQ"].present
    /\ \A t \in HealthTickers \ {"QQQ"} : healthCalc.instruments[t].present
    /\ healthCalc.instruments["SPY"].changePercent = 100
    /\ healthCalc.result.score = 50

\* The lower bound of each band of the five-band table and of the compass's
\* three-band table.
BandFloor ==
    [very_healthy |-> 75, healthy |-> 60, neutral |-> 40, unhealthy |-> 25, very_unhealthy |-> 0]
CompassFloor == [healthy |-> 65, neutral |-> 45, stressed |-> 0]
BandKey(status) ==
    CASE status = "very-healthy" -> "very_healthy"
      [] status = "very-unhealthy" -> "very_unhealthy"
      [] OTHER -> status
\* the status is the band of `floors` with the highest lower bound that the
\* score reaches
InBandOf(floors, score, status) ==
    /\ BandKey(status) \in DOMAIN floors
    /\ floors[BandKey(status)] <= score
    /\ \A b \in DOMAIN floors : floors[b] <= score => floors[b] <= floors[BandKey(status)]

C33_AgreementClassification ==
    (agreeCalc # NoCalc /\ agreeCalc.returned) =>
        LET s == agreeCalc.scores
            c == agreeCalc.categories
            Names(seq) == {seq[k][1] : k \in 1..Len(seq)}
            bull == {i \in PillarIndexes : s[i] >= 60}
            neut == {i \in PillarIndexes : 45 <= s[i] /\ s[i] < 60}
            bear == {i \in PillarIndexes : s[i] < 45}
            verdict == agreeCalc.interpretation
        IN  /\ Names(c.bullish) = {PillarNames[i] : i \in bull}
            /\ Names(c.neutral) = {PillarNames[i] : i \in neut}
            /\ Names(c.bearish) = {PillarNames[i] : i \in bear}
            /\ Len(c.bullish) + Len(c.neutral) + Len(c.bearish) = Len(PillarNames)
            /\ (verdict = "Strong bullish") <=> (Cardinality(bull) >= 5)
            /\ (verdict = "Leaning positive") <=> (Cardinality(bull) = 4)
            /\ (verdict = "Strong defensive") <=> (Cardinality(bear) >= 5)
            /\ (verdict = "Leaning negative") <=> (Cardinality(bear) = 4)
            /\ (verdict = "Mixed signals") <=> (Cardinality(bull) < 4 /\ Cardinality(bear) < 4)

C33_Witness ==
    /\ agreeCalc # NoCalc /\ agreeCalc.returned
    /\ agreeCalc.scores = <<60, 60, 44, 60, 45, 60>>
    /\ Len(agreeCalc.categories.bearish) = 1
    /\ agreeCalc.interpretation = "Leaning positive"

\* What fetchQuote finds in the two tiers for a ticker: nothing the tier
\* would serve.
MemoryMisses(tk) == memCache[tk] = NoMem \/ now - memCache[tk].timestamp >= CACHE_TTL
StorageMisses(tk) ==
    \/ lsStore[tk] = NoItem
    \/ ~Parses(lsStore[tk])
    \/ now - Parse(lsStore[tk]).timestamp > Parse(lsStore[tk]).ttl

\* the upstream call of a fetchQuote begins; its successful end
UpstreamBegins(tk) == quotePc[tk] # "upstream" /\ quotePc'[tk] = "upstream"
UpstreamFetched(tk) == quotePc[tk] = "upstream" /\ quoteGot'.from = "upstream"

C34_Order(tk) ==
    /\ UpstreamBegins(tk) => MemoryMisses(tk) /\ StorageMisses(tk)
    /\ (quoteGot' # quoteGot /\ quoteGot'.ticker = tk /\ quoteGot'.from = "localStorage")
          => MemoryMisses(tk)
C34_MemoryHolds(tk) == UpstreamFetched(tk) => memCache'[tk].data = quoteGot'.result
C34_StorageHolds(tk) ==
    /\ lsStore'[tk] # NoItem
    /\ Parses(lsStore'[tk])
    /\ Parse(lsStore'[tk]).data = quoteGot'.result

C35_NoStrandedTask ==
    /\ Len(queue) > 0 => processing
    /\ ~processing => queue = <<>> /\ \A d \in Tasks : drain[d] = NoDrain
C35_Witness ==
    /\ processing
    /\ drain[1].pc = "loop"
    /\ drain[1].cur = 1
    /\ queue = <<2>>
    /\ promise[1].state # "pending"

LazyRemovalRuns(id) ==
    /\ Len(idbTx) > 0
    /\ Head(idbTx).op = "delete"
    /\ Head(idbTx).lazy
    /\ Head(idbTx).id = id
FreshlyStored(id) == idbStore[id] # NoRecord /\ ~IsExpired(idbStore[id], now)
C37_LazyRemovalKeepsFreshWrite ==
    [][\A id \in Ids :
          LazyRemovalRuns(id) /\ FreshlyStored(id) => idbStore'[id] = idbStore[id]]_vars

\* C38: when the stored score history is unparsable or not a list, saveScore
\* leaves the storage unchanged and records nothing: whatever saves follow,
\* getHistoryLength returns 0 and getPercentile30d returns null.
C38_LengthIsZero == lastLength # NoLength => lastLength = [kind |-> "number", value |-> 0]
C38_PercentileIsNull == lastQuery # NoQuery => lastQuery.result = NullPercentile
C38_CorruptHistoryStaysInert ==
    /\ [](C38_LengthIsZero /\ C38_PercentileIsNull)
    /\ [][history' = history]_vars

\* C39: when the first write of saveScore fails and its reduced write
\* succeeds, the stored history is afterwards exactly the first 30 of the
\* entries stored before, which are the newest: the score being saved is not
\* recorded, and an entry of the same day keeps its old values.
ReducedWrite(save) == save # NoSave /\ save.outcome = "reduced" /\ save.primaryThrew /\ ~save.reducedThrew
C39_ReducedWriteKeepsNewest30 ==
    [][ReducedWrite(lastSave') =>
          LET old == HParse(history)
              new == HParse(history')
              n == IF Len(old) < ReducedDays THEN Len(old) ELSE ReducedDays
          IN  /\ Len(new) = n
              /\ \A i \in 1..n : new[i] = old[i]
              /\ \A i \in 1..n, j \in (n + 1)..Len(old) : old[i].date > old[j].date
              /\ lastSave'.date \notin Dates(old) => lastSave'.date \notin Dates(new)]_vars
C39_Witness ==
    /\ ReducedWrite(lastSave)
    /\ lastSave.dropped # {}
    /\ Len(HParse(history)) = ReducedDays
    /\ \E i \in 1..Len(HParse(history)) :
          /\ HParse(history)[i].date = lastSave.date
          /\ HParse(history)[i].composite # lastSave.composite

\* C40: after a saveScore(s, ...) that was written on a date not older than
\* any stored date, with at least 30 entries stored, getPercentile30d(s) is at
\* most 97: the entry just saved is among the 30 compared and is not below s.
SavedNewest ==
    /\ lastSave.outcome = "saved"
    /\ Len(HParse(history)) >= PercentileDays
    /\ \A d \in Dates(HParse(history)) : d <= lastSave.date
C40_JustSavedAtMost97 ==
    /\ [](SavedNewest => GetPercentile30dOf(history, lastSave.composite) \in 0..97)
    /\ [][(SavedNewest /\ lastQuery' # NoQuery /\ lastQuery'.score = lastSave.composite)
            => lastQuery'.result \in 0..97]_vars
C40_Witness ==
    /\ SavedNewest
    /\ lastSave.had
    /\ GetPercentile30dOf(history, lastSave.composite) > 0
    /\ \A i \in 2..PercentileDays : HParse(history)[i].composite <= lastSave.composite

====
